---- MODULE Spec2Model ----
\* ADS-B landing attribution (Engage2Hackathon): trajectory segmentation
\* (identify_segments), nearest-point matching (find_nearest_point) and
\* landing-runway attribution (identify_landing_runway) of tools_filter.py.
\*
\* A dataframe is a sequence of rows in row order; a row is a record whose
\* field idx is the row's index label.  Distances are whole metres, rounded
\* up, so that d > 700 in the model exactly when the float distance is > 700.
EXTENDS Integers, Sequences, FiniteSets, TLC

\* ---------------------------------------------------------------------
\* Positions.  Every position of the model is a concrete coordinate pair:
\*   FAP_18R          lat 40.77194444444444      lon -3.576111111111111
\*   FAP_18L          lat 40.70722222222223      lon -3.5602777777777774
\*   FAP_32L          lat 40.38111111111111      lon -3.4708333333333337
\*   FAP_32R          lat 40.35                  lon -3.411111111111111
\*   THR_18R          lat 40.53021850015943      lon -3.574838439918973
\*   THR_32L          lat 40.45647777995444      lon -3.547191670444303
\*   THR_32R          lat 40.47000833021541      lon -3.532580559771673
\*   THR_18L          lat 40.532622220224376     lon -3.55938056019154
\*   P_FAP32L_222m    lat 40.38311111111111      lon -3.4708333333333337
\*   P_FAP32L_700m    lat 40.38736816078252      lon -3.4699242391441154
\*   P_FAP32L_701m    lat 40.38740636235254      lon -3.4708333333333337
\*   P_THR32L_300m    lat 40.45447777995444      lon -3.544691670444303
\*   P_THR32L_900m    lat 40.45047777995444      lon -3.554191670444303
\*   P_THR32R_200m    lat 40.46850833021541      lon -3.531580559771673
\*   P_THR_TIE        lat 40.46326258920203      lon -3.5399177336897942
\*   P_OUT            lat 40.25                  lon -3.35
\* P_FAP32L_700m is at float distance 700.0 exactly from FAP_32L,
\* P_FAP32L_701m at 700.0000000001774, and P_THR_TIE at the same float
\* distance (973.5990432955009) from THR_32L and THR_32R.
\* ---------------------------------------------------------------------

\* haversine() of every pair of positions, in metres rounded up.
HaversineTable ==
    [ FAP_18R |->
        [FAP_18R |-> 0, FAP_18L |-> 7320, FAP_32L |-> 44359, FAP_32R |-> 48945, THR_18R |->
         26879, THR_32L |-> 35164, THR_32R |-> 33775, THR_18L |-> 26649, P_FAP32L_222m |-> 44142,
         P_FAP32L_700m |-> 43694, P_FAP32L_701m |-> 43674, P_THR32L_300m |-> 35401, P_THR32L_900m
         |-> 35794, P_THR32R_200m |-> 33950, P_THR_TIE |-> 34460, P_OUT |-> 61105],
      FAP_18L |->
        [FAP_18R |-> 7320, FAP_18L |-> 0, FAP_32L |-> 37042, FAP_32R |-> 41674, THR_18R |->
         19721, THR_32L |-> 27904, THR_32R |-> 26481, THR_18L |-> 19415, P_FAP32L_222m |-> 36824,
         P_FAP32L_700m |-> 36377, P_FAP32L_701m |-> 36357, P_THR32L_300m |-> 28135, P_THR32L_900m
         |-> 28554, P_THR32R_200m |-> 26655, P_THR_TIE |-> 27182, P_OUT |-> 53862],
      FAP_32L |->
        [FAP_18R |-> 44359, FAP_18L |-> 37042, FAP_32L |-> 0, FAP_32R |-> 6130, THR_18R |->
         18771, THR_32L |-> 10584, THR_32R |-> 11182, THR_18L |-> 18438, P_FAP32L_222m |-> 223,
         P_FAP32L_700m |-> 700, P_FAP32L_701m |-> 701, P_THR32L_300m |-> 10279, P_THR32L_900m |->
         10455, P_THR32R_200m |-> 10995, P_THR_TIE |-> 10847, P_OUT |-> 17819],
      FAP_32R |->
        [FAP_18R |-> 48945, FAP_18L |-> 41674, FAP_32L |-> 6130, FAP_32R |-> 0, THR_18R |->
         24364, THR_32L |-> 16522, THR_32R |-> 16848, THR_18L |-> 23871, P_FAP32L_222m |-> 6258,
         P_FAP32L_700m |-> 6488, P_FAP32L_701m |-> 6550, P_THR32L_300m |-> 16215, P_THR32L_900m
         |-> 16481, P_THR32R_200m |-> 16664, P_THR_TIE |-> 16661, P_OUT |-> 12268],
      THR_18R |->
        [FAP_18R |-> 26879, FAP_18L |-> 19721, FAP_32L |-> 18771, FAP_32R |-> 24364, THR_18R |->
         0, THR_32L |-> 8527, THR_32R |-> 7589, THR_18L |-> 1334, P_FAP32L_222m |-> 18575,
         P_FAP32L_700m |-> 18197, P_FAP32L_701m |-> 18155, P_THR32L_300m |-> 8800, P_THR32L_900m
         |-> 9038, P_THR32R_200m |-> 7776, P_THR_TIE |-> 8010, P_OUT |-> 36517],
      THR_32L |->
        [FAP_18R |-> 35164, FAP_18L |-> 27904, FAP_32L |-> 10584, FAP_32R |-> 16522, THR_18R |->
         8527, THR_32L |-> 0, THR_32R |-> 1948, THR_18L |-> 8530, P_FAP32L_222m |-> 10409,
         P_FAP32L_700m |-> 10092, P_FAP32L_701m |-> 10039, P_THR32L_300m |-> 307, P_THR32L_900m
         |-> 893, P_THR32R_200m |-> 1880, P_THR_TIE |-> 974, P_OUT |-> 28397],
      THR_32R |->
        [FAP_18R |-> 33775, FAP_18L |-> 26481, FAP_32L |-> 11182, FAP_32R |-> 16848, THR_18R |->
         7589, THR_32L |-> 1948, THR_32R |-> 0, THR_18L |-> 7322, P_FAP32L_222m |-> 10986,
         P_FAP32L_700m |-> 10610, P_FAP32L_701m |-> 10568, P_THR32L_300m |-> 2009, P_THR32L_900m
         |-> 2839, P_THR32R_200m |-> 188, P_THR_TIE |-> 974, P_OUT |-> 28945],
      THR_18L |->
        [FAP_18R |-> 26649, FAP_18L |-> 19415, FAP_32L |-> 18438, FAP_32R |-> 23871, THR_18R |->
         1334, THR_32L |-> 8530, THR_32R |-> 7322, THR_18L |-> 0, P_FAP32L_222m |-> 18235,
         P_FAP32L_700m |-> 17837, P_FAP32L_701m |-> 17801, P_THR32L_300m |-> 8778, P_THR32L_900m
         |-> 9145, P_THR32R_200m |-> 7507, P_THR_TIE |-> 7887, P_OUT |-> 36084],
      P_FAP32L_222m |->
        [FAP_18R |-> 44142, FAP_18L |-> 36824, FAP_32L |-> 223, FAP_32R |-> 6258, THR_18R |->
         18575, THR_32L |-> 10409, THR_32R |-> 10986, THR_18L |-> 18235, P_FAP32L_222m |-> 0,
         P_FAP32L_700m |-> 480, P_FAP32L_701m |-> 478, P_THR32L_300m |-> 10103, P_THR32L_900m |->
         10292, P_THR32R_200m |-> 10799, P_THR_TIE |-> 10660, P_OUT |-> 18001],
      P_FAP32L_700m |->
        [FAP_18R |-> 43694, FAP_18L |-> 36377, FAP_32L |-> 700, FAP_32R |-> 6488, THR_18R |->
         18197, THR_32L |-> 10092, THR_32R |-> 10610, THR_18L |-> 17837, P_FAP32L_222m |-> 480,
         P_FAP32L_700m |-> 0, P_FAP32L_701m |-> 78, P_THR32L_300m |-> 9785, P_THR32L_900m |->
         10007, P_THR32R_200m |-> 10424, P_THR_TIE |-> 10312, P_OUT |-> 18350],
      P_FAP32L_701m |->
        [FAP_18R |-> 43674, FAP_18L |-> 36357, FAP_32L |-> 701, FAP_32R |-> 6550, THR_18R |->
         18155, THR_32L |-> 10039, THR_32R |-> 10568, THR_18L |-> 17801, P_FAP32L_222m |-> 478,
         P_FAP32L_700m |-> 78, P_FAP32L_701m |-> 0, P_THR32L_300m |-> 9733, P_THR32L_900m |->
         9950, P_THR32R_200m |-> 10382, P_THR_TIE |-> 10264, P_OUT |-> 18396],
      P_THR32L_300m |->
        [FAP_18R |-> 35401, FAP_18L |-> 28135, FAP_32L |-> 10279, FAP_32R |-> 16215, THR_18R |->
         8800, THR_32L |-> 307, THR_32R |-> 2009, THR_18L |-> 8778, P_FAP32L_222m |-> 10103,
         P_FAP32L_700m |-> 9785, P_FAP32L_701m |-> 9733, P_THR32L_300m |-> 0, P_THR32L_900m |->
         919, P_THR32R_200m |-> 1915, P_THR_TIE |-> 1058, P_OUT |-> 28092],
      P_THR32L_900m |->
        [FAP_18R |-> 35794, FAP_18L |-> 28554, FAP_32L |-> 10455, FAP_32R |-> 16481, THR_18R |->
         9038, THR_32L |-> 893, THR_32R |-> 2839, THR_18L |-> 9145, P_FAP32L_222m |-> 10292,
         P_FAP32L_700m |-> 10007, P_FAP32L_701m |-> 9950, P_THR32L_300m |-> 919, P_THR32L_900m
         |-> 0, P_THR32R_200m |-> 2772, P_THR_TIE |-> 1866, P_OUT |-> 28220],
      P_THR32R_200m |->
        [FAP_18R |-> 33950, FAP_18L |-> 26655, FAP_32L |-> 10995, FAP_32R |-> 16664, THR_18R |->
         7776, THR_32L |-> 1880, THR_32R |-> 188, THR_18L |-> 7507, P_FAP32L_222m |-> 10799,
         P_FAP32L_700m |-> 10424, P_FAP32L_701m |-> 10382, P_THR32L_300m |-> 1915, P_THR32L_900m
         |-> 2772, P_THR32R_200m |-> 0, P_THR_TIE |-> 916, P_OUT |-> 28759],
      P_THR_TIE |->
        [FAP_18R |-> 34460, FAP_18L |-> 27182, FAP_32L |-> 10847, FAP_32R |-> 16661, THR_18R |->
         8010, THR_32L |-> 974, THR_32R |-> 974, THR_18L |-> 7887, P_FAP32L_222m |-> 10660,
         P_FAP32L_700m |-> 10312, P_FAP32L_701m |-> 10264, P_THR32L_300m |-> 1058, P_THR32L_900m
         |-> 1866, P_THR32R_200m |-> 916, P_THR_TIE |-> 0, P_OUT |-> 28659],
      P_OUT |->
        [FAP_18R |-> 61105, FAP_18L |-> 53862, FAP_32L |-> 17819, FAP_32R |-> 12268, THR_18R |->
         36517, THR_32L |-> 28397, THR_32R |-> 28945, THR_18L |-> 36084, P_FAP32L_222m |-> 18001,
         P_FAP32L_700m |-> 18350, P_FAP32L_701m |-> 18396, P_THR32L_300m |-> 28092, P_THR32L_900m
         |-> 28220, P_THR32R_200m |-> 28759, P_THR_TIE |-> 28659, P_OUT |-> 0] ]

haversine(p, q) ==
    HaversineTable[p][q]

\* The initial compass bearing from the first position to the second, of
\* every pair of positions, in thousandths of a degree rounded down.
BearingTable ==
    [ FAP_18R |->
        [FAP_18R |-> 0, FAP_18L |-> 169493, FAP_32L |-> 168402, FAP_32R |-> 163400, THR_18R |->
         179770, THR_32L |-> 176009, THR_32R |-> 173740, THR_18L |-> 176958, P_FAP32L_222m |->
         168345, P_FAP32L_700m |-> 168121, P_FAP32L_701m |-> 168219, P_THR32L_300m |-> 175693,
         P_THR32L_900m |-> 177029, P_THR32R_200m |-> 173629, P_THR_TIE |-> 174902, P_OUT |->
         161696],
      FAP_18L |->
        [FAP_18R |-> 349504, FAP_18L |-> 0, FAP_32L |-> 168197, FAP_32R |-> 162342, THR_18R |->
         183577, THR_32L |-> 177725, THR_32R |-> 174923, THR_18L |-> 179776, P_FAP32L_222m |->
         168127, P_FAP32L_700m |-> 167855, P_FAP32L_701m |-> 167973, P_THR32L_300m |-> 177313,
         P_THR32L_900m |-> 178966, P_THR32R_200m |-> 174774, P_THR_TIE |-> 176366, P_OUT |->
         160650],
      FAP_32L |->
        [FAP_18R |-> 348471, FAP_18L |-> 348255, FAP_32L |-> 0, FAP_32R |-> 124341, THR_18R |->
         332076, THR_32L |-> 322380, THR_32R |-> 332152, THR_18L |-> 336054, P_FAP32L_222m |-> 0,
         P_FAP32L_700m |-> 6314, P_FAP32L_701m |-> 0, P_THR32L_300m |-> 322555, P_THR32L_900m |->
         317570, P_THR32R_200m |-> 332135, P_THR_TIE |-> 327395, P_OUT |-> 144864],
      FAP_32R |->
        [FAP_18R |-> 343507, FAP_18L |-> 342439, FAP_32L |-> 304379, FAP_32R |-> 0, THR_18R |->
         325391, THR_32L |-> 315821, THR_32R |-> 322418, THR_18L |-> 328335, P_FAP32L_222m |->
         306061, P_FAP32L_700m |-> 309845, P_FAP32L_701m |-> 309442, P_THR32L_300m |-> 315808,
         P_THR32L_900m |-> 312726, P_THR32R_200m |-> 322297, P_THR_TIE |-> 319150, P_OUT |->
         154991],
      THR_18R |->
        [FAP_18R |-> 359771, FAP_18L |-> 3568, FAP_32L |-> 152009, FAP_32R |-> 145285, THR_18R
         |-> 0, THR_32L |-> 164077, THR_32R |-> 151898, THR_18L |-> 78432, P_FAP32L_222m |->
         151687, P_FAP32L_700m |-> 150769, P_FAP32L_701m |-> 150974, P_THR32L_300m |-> 163149,
         P_THR32L_900m |-> 168853, P_THR32R_200m |-> 151926, P_THR_TIE |-> 158355, P_OUT |->
         148496],
      THR_32L |->
        [FAP_18R |-> 356028, FAP_18L |-> 357734, FAP_32L |-> 142330, FAP_32R |-> 135733, THR_18R
         |-> 344095, THR_32L |-> 0, THR_32R |-> 39401, THR_18L |-> 353063, P_FAP32L_222m |->
         141583, P_FAP32L_700m |-> 139572, P_FAP32L_701m |-> 139891, P_THR32L_300m |-> 136433,
         P_THR32L_900m |-> 221599, P_THR32R_200m |-> 44627, P_THR_TIE |-> 39202, P_OUT |->
         143889],
      THR_32R |->
        [FAP_18R |-> 353769, FAP_18L |-> 354941, FAP_32L |-> 152112, FAP_32R |-> 142339, THR_18R
         |-> 331925, THR_32L |-> 219410, THR_32R |-> 0, THR_18L |-> 341980, P_FAP32L_222m |->
         151570, P_FAP32L_700m |-> 149988, P_FAP32L_701m |-> 150338, P_THR32L_300m |-> 210685,
         P_THR32L_900m |-> 220101, P_THR32R_200m |-> 153106, P_THR_TIE |-> 219609, P_OUT |->
         147633],
      THR_18L |->
        [FAP_18R |-> 356969, FAP_18L |-> 359776, FAP_32L |-> 155997, FAP_32R |-> 148239, THR_18R
         |-> 258442, THR_32L |-> 173055, THR_32R |-> 161963, THR_18L |-> 0, P_FAP32L_222m |->
         155713, P_FAP32L_700m |-> 154863, P_FAP32L_701m |-> 155082, P_THR32L_300m |-> 171860,
         P_THR32L_900m |-> 177247, P_THR32R_200m |-> 161742, P_THR_TIE |-> 167948, P_OUT |->
         150497],
      P_FAP32L_222m |->
        [FAP_18R |-> 348413, FAP_18L |-> 348185, FAP_32L |-> 180000, FAP_32R |-> 126022, THR_18R
         |-> 331755, THR_32L |-> 321632, THR_32R |-> 331610, THR_18L |-> 335770, P_FAP32L_222m
         |-> 0, P_FAP32L_700m |-> 9238, P_FAP32L_701m |-> 0, P_THR32L_300m |-> 321789,
         P_THR32L_900m |-> 316735, P_THR32R_200m |-> 331583, P_THR_TIE |-> 326751, P_OUT |->
         145271],
      P_FAP32L_700m |->
        [FAP_18R |-> 348190, FAP_18L |-> 347914, FAP_32L |-> 186315, FAP_32R |-> 129806, THR_18R
         |-> 330837, THR_32L |-> 319622, THR_32R |-> 330029, THR_18L |-> 334921, P_FAP32L_222m
         |-> 189239, P_FAP32L_700m |-> 0, P_FAP32L_701m |-> 273158, P_THR32L_300m |-> 319720,
         P_THR32L_900m |-> 314556, P_THR32R_200m |-> 329973, P_THR_TIE |-> 324951, P_OUT |->
         146312],
      P_FAP32L_701m |->
        [FAP_18R |-> 348287, FAP_18L |-> 348031, FAP_32L |-> 180000, FAP_32R |-> 129403, THR_18R
         |-> 331042, THR_32L |-> 319940, THR_32R |-> 330378, THR_18L |-> 335140, P_FAP32L_222m
         |-> 180000, P_FAP32L_700m |-> 93157, P_FAP32L_701m |-> 0, P_THR32L_300m |-> 320049,
         P_THR32L_900m |-> 314849, P_THR32R_200m |-> 330329, P_THR_TIE |-> 325289, P_OUT |->
         146119],
      P_THR32L_300m |->
        [FAP_18R |-> 355713, FAP_18L |-> 357323, FAP_32L |-> 142508, FAP_32R |-> 135722, THR_18R
         |-> 343168, THR_32L |-> 316435, THR_32R |-> 30677, THR_18L |-> 351869, P_FAP32L_222m |->
         141741, P_FAP32L_700m |-> 139672, P_FAP32L_701m |-> 140001, P_THR32L_300m |-> 0,
         P_THR32L_900m |-> 241046, P_THR32R_200m |-> 35407, P_THR_TIE |-> 22462, P_OUT |->
         143972],
      P_THR32L_900m |->
        [FAP_18R |-> 357043, FAP_18L |-> 358970, FAP_32L |-> 137516, FAP_32R |-> 132634, THR_18R
         |-> 348866, THR_32L |-> 41594, THR_32R |-> 40087, THR_18L |-> 357251, P_FAP32L_222m |->
         136681, P_FAP32L_700m |-> 134502, P_FAP32L_701m |-> 134795, P_THR32L_300m |-> 61039,
         P_THR32L_900m |-> 0, P_THR32R_200m |-> 43648, P_THR_TIE |-> 40343, P_OUT |-> 142114],
      P_THR32R_200m |->
        [FAP_18R |-> 353658, FAP_18L |-> 354793, FAP_32L |-> 152095, FAP_32R |-> 142219, THR_18R
         |-> 331954, THR_32L |-> 224638, THR_32R |-> 333107, THR_18L |-> 341761, P_FAP32L_222m
         |-> 151544, P_FAP32L_700m |-> 149933, P_FAP32L_701m |-> 150289, P_THR32L_300m |->
         215416, P_THR32L_900m |-> 223663, P_THR32R_200m |-> 0, P_THR_TIE |-> 230410, P_OUT |->
         147598],
      P_THR_TIE |->
        [FAP_18R |-> 354925, FAP_18L |-> 356380, FAP_32L |-> 147350, FAP_32R |-> 139066, THR_18R
         |-> 338377, THR_32L |-> 219206, THR_32R |-> 39604, THR_18L |-> 347961, P_FAP32L_222m |->
         146706, P_FAP32L_700m |-> 144906, P_FAP32L_701m |-> 145244, P_THR32L_300m |-> 202465,
         P_THR32L_900m |-> 220353, P_THR32R_200m |-> 50405, P_THR_TIE |-> 0, P_OUT |-> 145777],
      P_OUT |->
        [FAP_18R |-> 341843, FAP_18L |-> 340787, FAP_32L |-> 324942, FAP_32R |-> 335030, THR_18R
         |-> 328642, THR_32L |-> 324016, THR_32R |-> 327751, THR_18L |-> 330633, P_FAP32L_222m
         |-> 325349, P_FAP32L_700m |-> 326389, P_FAP32L_701m |-> 326197, P_THR32L_300m |->
         324098, P_THR32L_900m |-> 322246, P_THR32R_200m |-> 327715, P_THR_TIE |-> 325900, P_OUT
         |-> 0] ]

\* compute_bearing (math) and calculate_bearing (numpy) are one formula.
compute_bearing(p, q) ==
    BearingTable[p][q]

calculate_bearing(p, q) ==
    BearingTable[p][q]

\* Python's None, and a null (NaN) latitude or longitude of a row.
None ==
    "None"

\* float('inf'): larger than every great-circle distance on the Earth.
Infinity ==
    20015088

\* The FAP registry, in the iteration order of the dictionary.
FAP_position ==
    << [runway |-> "18R", point |-> "FAP_18R"],
       [runway |-> "18L", point |-> "FAP_18L"],
       [runway |-> "32L", point |-> "FAP_32L"],
       [runway |-> "32R", point |-> "FAP_32R"] >>

\* The threshold registry, in the iteration order of the dictionary.
threshold_position ==
    << [runway |-> "18R", point |-> "THR_18R"],
       [runway |-> "32L", point |-> "THR_32L"],
       [runway |-> "32R", point |-> "THR_32R"],
       [runway |-> "18L", point |-> "THR_18L"] >>

\* ---------------------------------------------------------------------
\* Bounds and input domains.
\* ---------------------------------------------------------------------
MaxReports ==
    3

MaxRefs ==
    2

MaxSegRows ==
    3

MaxRows ==
    4

MaxGroups ==
    2

MaxApproachRows ==
    3

MaxBackwardsRows ==
    3

MaxPipelineRows ==
    3

MaxCacheRows ==
    2

MaxRuns ==
    2

MaxScores ==
    2

MaxDmsDigits ==
    7

MaxSamples ==
    2

MaxSigma ==
    2

ReportPositions ==
    {"P_FAP32L_222m", "P_FAP32L_700m", "P_FAP32L_701m", "P_THR32L_300m",
     "P_THR32L_900m", "P_THR32R_200m", "P_THR_TIE"}

\* Positions of the reports given to identify_landing_runway.
AttrPositions ==
    {"P_FAP32L_700m", "P_FAP32L_701m", "P_THR32L_300m", "P_THR32R_200m"}

\* The two positions of an approach to runway 32L within 700 m of its FAP
\* and of its threshold.
ApproachPositions ==
    {"P_FAP32L_700m", "P_THR32L_300m"}

\* Positions of the reports given to identify_landing_runway_backwards.
BackwardsPositions ==
    {"P_FAP32L_222m", "P_FAP32L_700m", "P_THR32L_300m", "P_THR32L_900m"}

\* Aircraft identifiers, in ascending (string) order.
Aircraft ==
    << "3443c1", "4ca2d5" >>

\* Group keys (icao24, segment) of the generated dataframes, ascending.
Keys ==
    << << "3443c1", 0 >>, << "3443c1", 1 >>, << "4ca2d5", 0 >> >>

\* The positions (or None, no coordinates) of the rows of each group: any
\* for the first group, those of an approach for the others.
KeyPositions ==
    << AttrPositions \cup {None}, ApproachPositions, ApproachPositions >>

Trajectories ==
    {"departing", "landing", "level"}

\* Timestamps (ms) of the reports given to identify_segments: 3600 s and
\* 3600.5 s apart.
TsValues ==
    {0, 3600000, 7200500}

\* A null (NaN) altitude: an integer below every altitude.
NaN ==
    -1000000

\* Altitudes (ft) of the reports given to identify_segments.
AltValues ==
    {1000, 2000, NaN}

\* The reports (icao24, ts, altitude) given to identify_segments: every
\* timestamp and altitude for the first aircraft, two reports for the second.
SegReports ==
    {<< Aircraft[1], ts, alt >> : ts \in TsValues, alt \in AltValues} \cup
    {<< Aircraft[2], 0, 1000 >>, << Aircraft[2], 7200500, 2000 >>}

\* The raw reports (icao24, ts, altitude, position) given to the pipeline:
\* reports 3600 s apart, one higher than the report before it, one outside
\* the geographic bounds, one above the altitude range, one without altitude, one without coordinates, one that
\* starts a second segment and one of a second aircraft.
PipelineReports ==
    {<< Aircraft[1], 0, 2000, "P_FAP32L_700m" >>,
     << Aircraft[1], 1800000, 2500, "P_THR32L_300m" >>,
     << Aircraft[1], 3600000, 1500, "P_OUT" >>,
     << Aircraft[1], 3600000, 11000, "P_FAP32L_222m" >>,
     << Aircraft[1], 7200000, 1000, "P_THR32L_300m" >>,
     << Aircraft[1], 7200000, NaN, "P_THR32L_300m" >>,
     << Aircraft[1], 10801000, 1000, None >>,
     << Aircraft[1], 10801000, 500, "P_THR32L_300m" >>,
     << Aircraft[2], 0, 1000, "P_FAP32L_700m" >>}

\* Timestamps, in multiples of TsStep, of the reports of a single approach.
ApproachTimes ==
    {1, 2, 3}

\* Timestamp (ms) of the i-th row of a generated dataframe.
TsStep ==
    150 * 1000

\* ---------------------------------------------------------------------
\* Sequence helpers.
\* ---------------------------------------------------------------------
SeqRange(s) ==
    {s[i] : i \in 1..Len(s)}

Injective(s) ==
    \A i, j \in 1..Len(s) : s[i] = s[j] => i = j

Min(S) ==
    CHOOSE x \in S : \A y \in S : x <= y

Max(S) ==
    CHOOSE x \in S : \A y \in S : x >= y

\* ---------------------------------------------------------------------
\* find_nearest_point
\* ---------------------------------------------------------------------
\* State of a call of find_nearest_point.
VARIABLES
    fn_pc, fn_baseline, fn_filtered_df, fn_df, fn_k, fn_nearest

\* State of a call of identify_landing_runway: the argument (df_in), the filtered
\* dataframe, the group keys still to visit, the three result lists, the
\* printed diagnostics and the three returned tables.
VARIABLES
    pc, df_in, df_filt, grouped, results, basic_info_results, segments_ils_results,
    printed, df_with_runway, basic_info_df, df_segments_ils

\* State of a call of identify_segments: the argument, the aircraft still to
\* visit, the two result lists and the two returned tables.
VARIABLES
    sg_pc, sg_df, sg_icaos, annotated_list, segment_summary_list,
    annotated_df, segment_summary

\* State of the landing step of process_adsb_data_1day over successive runs
\* on one date range: the position in the run, the model argument, the number
\* of runs started and the cache file of the landing tables.
VARIABLES
    ch_pc, model, runs, cache_file3

fn_vars ==
    << fn_pc, fn_baseline, fn_filtered_df, fn_df, fn_k, fn_nearest >>

lr_vars ==
    << pc, df_in, df_filt, grouped, results, basic_info_results, segments_ils_results,
       printed, df_with_runway, basic_info_df, df_segments_ils >>

sg_vars ==
    << sg_pc, sg_df, sg_icaos, annotated_list, segment_summary_list,
       annotated_df, segment_summary >>

\* State of a call of compute_score: the two arguments, the scores collected
\* so far and the returned value.
VARIABLES
    sc_pc, y_prediction_seconds, y_true_seconds, individual_scores, final_score

\* State of a call of RunwayFAP.dms_to_decimal: the argument and the result.
VARIABLES
    dm_pc, dms_str, decimal

\* State of a call of get_time_nov, get_time_nov_feb, get_time_full or
\* sample_greater_than_mean: the call, the arguments of
\* sample_greater_than_mean, its list of samples, the value drawn last and
\* the returned value (a float or an array, each in a record of its kind).
VARIABLES
    sm_pc, sm_call, n_samples, dist_mean, loc, scale, samples, val, sm_result

ch_vars ==
    << ch_pc, model, runs, cache_file3 >>

sm_vars ==
    << sm_pc, sm_call, n_samples, dist_mean, loc, scale, samples, val, sm_result >>

dm_vars ==
    << dm_pc, dms_str, decimal >>

sc_vars ==
    << sc_pc, y_prediction_seconds, y_true_seconds, individual_scores, final_score >>

vars ==
    << fn_vars, lr_vars, sg_vars, ch_vars, sc_vars, dm_vars, sm_vars >>

\* No value yet.
PyNoValue ==
    [null |-> "unset"]

\* No call of compute_score is modelled.
ScIdle ==
    /\ sc_pc = "idle"
    /\ y_prediction_seconds = << >>
    /\ y_true_seconds = << >>
    /\ individual_scores = << >>
    /\ final_score = 0

\* No call of dms_to_decimal is modelled.
DmIdle ==
    /\ dm_pc = "idle"
    /\ dms_str = << >>
    /\ decimal = PyNoValue

\* No call of the sampling functions is modelled.
SmIdle ==
    /\ sm_pc = "idle"
    /\ sm_call = PyNoValue
    /\ n_samples = 0
    /\ dist_mean = 0
    /\ loc = 0
    /\ scale = 0
    /\ samples = << >>
    /\ val = PyNoValue
    /\ sm_result = PyNoValue

\* A file that does not exist.
NoFile ==
    [exists |-> FALSE]

\* No run of process_adsb_data_1day is modelled.
ChIdle ==
    /\ ch_pc = "idle"
    /\ model = ""
    /\ runs = 0
    /\ cache_file3 = NoFile

\* No call of identify_segments is modelled.
SgIdle ==
    /\ sg_pc = "idle"
    /\ sg_df = << >>
    /\ sg_icaos = << >>
    /\ annotated_list = << >>
    /\ segment_summary_list = << >>
    /\ annotated_df = << >>
    /\ segment_summary = << >>

\* No call of find_nearest_point is modelled.
FnIdle ==
    /\ fn_pc = "idle"
    /\ fn_baseline = << >>
    /\ fn_filtered_df = << >>
    /\ fn_df = << >>
    /\ fn_k = 0
    /\ fn_nearest = << >>

\* No call of identify_landing_runway is modelled.
LrIdle ==
    /\ pc = "idle"
    /\ df_in = << >>
    /\ df_filt = << >>
    /\ grouped = << >>
    /\ results = << >>
    /\ basic_info_results = << >>
    /\ segments_ils_results = << >>
    /\ printed = << >>
    /\ df_with_runway = << >>
    /\ basic_info_df = << >>
    /\ df_segments_ils = << >>

\* df.dropna(subset=['lat_deg', 'lon_deg'])
dropna(df) ==
    SelectSeq(df, LAMBDA row : row.pos # None)

\* The initial value of nearest: the "no match" sentinel.
NoMatch ==
    [distance |-> Infinity, runway |-> None, point |-> None,
     base |-> None, index |-> None, ts |-> None]

\* Faulty variant of idxmin: the first row, whatever its distance.
idxmin_first(df, point) ==
    Min({i \in 1..Len(df) : haversine(df[i].pos, point) >= 0})

\* distances.idxmin(): the position of the first row at minimum distance.
idxmin(df, point) ==
    LET m == Min({haversine(df[i].pos, point) : i \in 1..Len(df)})
    IN  Min({i \in 1..Len(df) : haversine(df[i].pos, point) = m})

\* Faulty variant of NearestStep: a reference point at equal distance replaces the best.
NearestStep_le(nearest, entry, df) ==
    LET i == idxmin(df, entry.point)
        min_distance == haversine(df[i].pos, entry.point)
    IN  IF min_distance <= nearest.distance
        THEN [distance |-> min_distance, runway |-> entry.runway,
              point |-> df[i], base |-> entry.point,
              index |-> df[i].idx, ts |-> df[i].ts]
        ELSE nearest

\* One iteration of the loop over baseline_position.items().
NearestStep(nearest, entry, df) ==
    LET i == idxmin(df, entry.point)
        min_distance == haversine(df[i].pos, entry.point)
    IN  IF min_distance < nearest.distance
        THEN [distance |-> min_distance, runway |-> entry.runway,
              point |-> df[i], base |-> entry.point,
              index |-> df[i].idx, ts |-> df[i].ts]
        ELSE nearest

\* idxmin() of an empty Series raises ValueError.
Raised ==
    [raised |-> "ValueError"]

IsRaised(r) ==
    "raised" \in DOMAIN r

RECURSIVE NearestLoop(_, _, _, _)
NearestLoop(baseline, k, df, nearest) ==
    IF k > Len(baseline)
    THEN nearest
    ELSE NearestLoop(baseline, k + 1, df, NearestStep(nearest, baseline[k], df))

find_nearest_point(baseline_position, filtered_df) ==
    LET df == dropna(filtered_df)
    IN  IF Len(baseline_position) > 0 /\ Len(df) = 0
        THEN Raised
        ELSE NearestLoop(baseline_position, 1, df, NoMatch)

\* Altitude (ft) of the i-th row of a generated segment of class trajectory.
AltitudeOf(trajectory, i) ==
    IF trajectory = "landing" THEN 4000 - 100 * i
    ELSE IF trajectory = "departing" THEN 4000 + 100 * i
    ELSE 4000

\* The i-th row of a generated dataframe: index label i - 1, timestamp
\* i * TsStep, group key = <<icao24, segment>>.
TaggedRow(i, key, trajectory, pos) ==
    [idx |-> i - 1, icao24 |-> key[1], segment |-> key[2],
     trajectory |-> trajectory, ts |-> i * TsStep,
     altitude |-> AltitudeOf(trajectory, i), pos |-> pos]

ReportRow(i, pos) ==
    TaggedRow(i, << "3443c1", 0 >>, "landing", pos)

\* Reference-point mappings given to find_nearest_point: the two registries
\* and every ordering of at most MaxRefs entries of the threshold registry.
Baselines ==
    {FAP_position, threshold_position} \cup
    UNION {{s \in [1..n -> SeqRange(threshold_position)] : Injective(s)} : n \in 0..MaxRefs}

NearestInit ==
    /\ fn_pc = "call"
    /\ fn_baseline \in Baselines
    /\ \E n \in 0..MaxReports :
         \E ps \in [1..n -> ReportPositions \cup {None}] :
           fn_filtered_df = [i \in 1..n |-> ReportRow(i, ps[i])]
    /\ fn_df = << >>
    /\ fn_k = 1
    /\ fn_nearest = NoMatch
    /\ LrIdle
    /\ SgIdle
    /\ ChIdle
    /\ ScIdle
    /\ DmIdle
    /\ SmIdle

\* Lines 297-308: copy, dropna, initialise nearest.
NearestEnter ==
    /\ fn_pc = "call"
    /\ fn_df' = dropna(fn_filtered_df)
    /\ fn_nearest' = NoMatch
    /\ fn_k' = 1
    /\ fn_pc' = "loop"
    /\ UNCHANGED << fn_baseline, fn_filtered_df, lr_vars, sg_vars, ch_vars, sc_vars, dm_vars, sm_vars >>

\* Lines 310-327: one reference point, at least one row left.
NearestIter ==
    /\ fn_pc = "loop"
    /\ fn_k <= Len(fn_baseline)
    /\ Len(fn_df) > 0
    /\ fn_nearest' = NearestStep(fn_nearest, fn_baseline[fn_k], fn_df)
    /\ fn_k' = fn_k + 1
    /\ UNCHANGED << fn_pc, fn_baseline, fn_filtered_df, fn_df, lr_vars, sg_vars, ch_vars, sc_vars, dm_vars, sm_vars >>

\* Lines 312-317 on an empty dataframe: idxmin raises.
NearestRaise ==
    /\ fn_pc = "loop"
    /\ fn_k <= Len(fn_baseline)
    /\ Len(fn_df) = 0
    /\ fn_pc' = "raised"
    /\ UNCHANGED << fn_baseline, fn_filtered_df, fn_df, fn_k, fn_nearest, lr_vars, sg_vars, ch_vars, sc_vars, dm_vars, sm_vars >>

\* Line 329.
NearestReturn ==
    /\ fn_pc = "loop"
    /\ fn_k > Len(fn_baseline)
    /\ fn_pc' = "returned"
    /\ UNCHANGED << fn_baseline, fn_filtered_df, fn_df, fn_k, fn_nearest, lr_vars, sg_vars, ch_vars, sc_vars, dm_vars, sm_vars >>

NearestNext ==
    \/ NearestEnter
    \/ NearestIter
    \/ NearestRaise
    \/ NearestReturn

SpecNearest ==
    NearestInit /\ [][NearestNext]_vars

\* ---------------------------------------------------------------------
\* identify_landing_runway
\* ---------------------------------------------------------------------
\* Faulty variant of SortedByTs: the rows are left in the order supplied.
SortedByTs_unsorted(group) ==
    {group}

\* The results of group.sort_values('ts'): the orders of the rows that are
\* ascending in ts (the default sort does not fix the order of equal ts).
SortedByTs(group) ==
    {[i \in 1..Len(group) |-> group[p[i]]] :
        p \in {q \in [1..Len(group) -> 1..Len(group)] :
                 /\ \A i, j \in 1..Len(group) : q[i] = q[j] => i = j
                 /\ \A i \in 1..(Len(group) - 1) : group[q[i]].ts <= group[q[i + 1]].ts}}

\* Maximum distance (m) of a match from its reference point.
MaxDistance ==
    700

IcaoRank(icao24) ==
    CHOOSE i \in 1..Len(Aircraft) : Aircraft[i] = icao24

\* Order of the group keys in df.groupby(['icao24', 'segment']).
KeyLess(k1, k2) ==
    \/ IcaoRank(k1[1]) < IcaoRank(k2[1])
    \/ k1[1] = k2[1] /\ k1[2] < k2[2]

RECURSIVE SortKeys(_)
SortKeys(S) ==
    IF S = {} THEN << >>
    ELSE LET k == CHOOSE x \in S : \A y \in S \ {x} : KeyLess(x, y)
         IN  << k >> \o SortKeys(S \ {k})

\* The keys of df.groupby(['icao24', 'segment']), in iteration order.
GroupKeys(d) ==
    SortKeys({<< d[i].icao24, d[i].segment >> : i \in 1..Len(d)})

\* The rows of one group, in the row order of the dataframe.
GroupRows(d, key) ==
    SelectSeq(d, LAMBDA row : row.icao24 = key[1] /\ row.segment = key[2])

\* Faulty variant of FilterTrajectories: only 'departing' is filtered out.
FilterTrajectories_departing(d) ==
    SelectSeq(d, LAMBDA row : row.trajectory \notin {"departing"})

\* df[~df['trajectory'].isin(['departing', 'level'])]
FilterTrajectories(d) ==
    SelectSeq(d, LAMBDA row : row.trajectory \notin {"departing", "level"})

\* pd.concat of a list of dataframes.
RECURSIVE concat(_)
concat(list) ==
    IF list = << >> THEN << >> ELSE Head(list) \o concat(Tail(list))

\* reset_index(drop=True): the labels become 0 .. n-1.
reset_index(d) ==
    [i \in 1..Len(d) |-> [d[i] EXCEPT !.idx = i - 1]]

\* index.get_loc(label): the position (from 1) of the row with that label.
get_loc(d, label) ==
    CHOOSE i \in 1..Len(d) : d[i].idx = label

\* A quotient num / den of two integers (a float of the program).
Frac(num, den) ==
    [num |-> num, den |-> den]

\* The greatest common divisor of two naturals, not both zero.
RECURSIVE GCD(_, _)
GCD(a, b) ==
    IF b = 0 THEN a ELSE GCD(b, a % b)

\* ms / 1000: a difference of timestamps (integer milliseconds) in seconds,
\* as the quotient in lowest terms.
Seconds(ms) ==
    IF ms % 1000 = 0 THEN Frac(ms \div 1000, 1)
    ELSE LET g == GCD(1000, IF ms < 0 THEN -ms ELSE ms)
         IN  Frac(ms \div g, 1000 \div g)

\* value > bound for a quotient with a positive denominator and an integer.
Greater(value, bound) ==
    value.num > bound * value.den

\* Faulty variant of Verdict: the FAP distance is not checked.
Verdict_no_fap_check(group_df) ==
    LET nearest_fap == find_nearest_point(FAP_position, group_df)
        nearest_thr == find_nearest_point(threshold_position, group_df)
    IN  IF IsRaised(nearest_fap) \/ IsRaised(nearest_thr) THEN "raise"
        ELSE IF nearest_fap.runway # nearest_thr.runway THEN "runways do not match"
        ELSE IF nearest_thr.distance > MaxDistance THEN "THR distance too large"
        ELSE "accept"

\* Faulty variant of Verdict: a distance of exactly 700 m is rejected.
Verdict_ge(group_df) ==
    LET nearest_fap == find_nearest_point(FAP_position, group_df)
        nearest_thr == find_nearest_point(threshold_position, group_df)
    IN  IF IsRaised(nearest_fap) \/ IsRaised(nearest_thr) THEN "raise"
        ELSE IF nearest_fap.runway # nearest_thr.runway THEN "runways do not match"
        ELSE IF nearest_fap.distance >= MaxDistance THEN "FAP distance too large"
        ELSE IF nearest_thr.distance >= MaxDistance THEN "THR distance too large"
        ELSE "accept"

\* Faulty variant of Verdict: a runway mismatch is not rejected.
Verdict_no_runway_check(group_df) ==
    LET nearest_fap == find_nearest_point(FAP_position, group_df)
        nearest_thr == find_nearest_point(threshold_position, group_df)
    IN  IF IsRaised(nearest_fap) \/ IsRaised(nearest_thr) THEN "raise"
        ELSE IF nearest_fap.distance > MaxDistance THEN "FAP distance too large"
        ELSE IF nearest_thr.distance > MaxDistance THEN "THR distance too large"
        ELSE "accept"

\* Faulty variant of Verdict: the threshold distance is not checked.
Verdict_no_thr_check(group_df) ==
    LET nearest_fap == find_nearest_point(FAP_position, group_df)
        nearest_thr == find_nearest_point(threshold_position, group_df)
    IN  IF IsRaised(nearest_fap) \/ IsRaised(nearest_thr) THEN "raise"
        ELSE IF nearest_fap.runway # nearest_thr.runway THEN "runways do not match"
        ELSE IF nearest_fap.distance > MaxDistance THEN "FAP distance too large"
        ELSE "accept"

\* Faulty variant of Verdict: the threshold distance is checked before the
\* FAP distance.
Verdict_thr_first(group_df) ==
    LET nearest_fap == find_nearest_point(FAP_position, group_df)
        nearest_thr == find_nearest_point(threshold_position, group_df)
    IN  IF IsRaised(nearest_fap) \/ IsRaised(nearest_thr) THEN "raise"
        ELSE IF nearest_fap.runway # nearest_thr.runway THEN "runways do not match"
        ELSE IF nearest_thr.distance > MaxDistance THEN "THR distance too large"
        ELSE IF nearest_fap.distance > MaxDistance THEN "FAP distance too large"
        ELSE "accept"

\* Lines 361-378: the two matches of a group and the outcome of the checks.
Verdict(group_df) ==
    LET nearest_fap == find_nearest_point(FAP_position, group_df)
        nearest_thr == find_nearest_point(threshold_position, group_df)
    IN  IF IsRaised(nearest_fap) \/ IsRaised(nearest_thr) THEN "raise"
        ELSE IF nearest_fap.runway # nearest_thr.runway THEN "runways do not match"
        ELSE IF nearest_fap.distance > MaxDistance THEN "FAP distance too large"
        ELSE IF nearest_thr.distance > MaxDistance THEN "THR distance too large"
        ELSE "accept"

\* Faulty variant of Timing: the scaling factor is inverted.
Timing_inverted(nearest_fap, nearest_thr) ==
    LET delta_time_real == Seconds(nearest_thr.ts - nearest_fap.ts)
        distance_real == haversine(nearest_fap.point.pos, nearest_thr.point.pos)
        true_distance == haversine(nearest_fap.base, nearest_thr.base)
    IN  [delta_time |-> delta_time_real,
         distance |-> distance_real,
         distance_fap_to_thr |-> true_distance,
         delta_time_fap_to_thr |->
             IF distance_real # 0
             THEN Frac(delta_time_real.num * distance_real,
                       delta_time_real.den * true_distance)
             ELSE delta_time_real]

\* Faulty variant of Timing: the elapsed time is corrected in magnitude only.
Timing_magnitude(nearest_fap, nearest_thr) ==
    LET delta_time_real == Seconds(nearest_thr.ts - nearest_fap.ts)
        distance_real == haversine(nearest_fap.point.pos, nearest_thr.point.pos)
        true_distance == haversine(nearest_fap.base, nearest_thr.base)
        magnitude == IF delta_time_real.num < 0
                     THEN Frac(-delta_time_real.num, delta_time_real.den)
                     ELSE delta_time_real
    IN  [delta_time |-> delta_time_real,
         distance |-> distance_real,
         distance_fap_to_thr |-> true_distance,
         delta_time_fap_to_thr |->
             IF distance_real # 0
             THEN Frac(magnitude.num * true_distance, magnitude.den * distance_real)
             ELSE magnitude]

\* Lines 390-415: the raw and the corrected time and distance.
Timing(nearest_fap, nearest_thr) ==
    LET delta_time_real == Seconds(nearest_thr.ts - nearest_fap.ts)
        distance_real == haversine(nearest_fap.point.pos, nearest_thr.point.pos)
        true_distance == haversine(nearest_fap.base, nearest_thr.base)
    IN  [delta_time |-> delta_time_real,
         distance |-> distance_real,
         distance_fap_to_thr |-> true_distance,
         delta_time_fap_to_thr |->
             IF distance_real # 0
             THEN Frac(delta_time_real.num * true_distance,
                       delta_time_real.den * distance_real)
             ELSE delta_time_real]

\* Faulty variant of Augment: idx_fap and idx_thr are positions in the group
\* and not labels of the argument.
Augment_positions(group_df, nearest_fap, nearest_thr) ==
    LET t == Timing(nearest_fap, nearest_thr)
    IN  [i \in 1..Len(group_df) |->
            group_df[i] @@
            [runway_fap |-> nearest_fap.runway, runway_thr |-> nearest_thr.runway,
             idx_fap |-> get_loc(group_df, nearest_fap.index) - 1,
             idx_thr |-> get_loc(group_df, nearest_thr.index) - 1,
             ts_fap |-> nearest_fap.ts, ts_thr |-> nearest_thr.ts,
             delta_time |-> t.delta_time,
             distance_fap_to_thr |-> t.distance_fap_to_thr,
             delta_time_fap_to_thr |-> t.delta_time_fap_to_thr]]

\* Lines 381-415: the group's rows with the attribution columns.
Augment(group_df, nearest_fap, nearest_thr) ==
    LET t == Timing(nearest_fap, nearest_thr)
    IN  [i \in 1..Len(group_df) |->
            group_df[i] @@
            [runway_fap |-> nearest_fap.runway, runway_thr |-> nearest_thr.runway,
             idx_fap |-> nearest_fap.index, idx_thr |-> nearest_thr.index,
             ts_fap |-> nearest_fap.ts, ts_thr |-> nearest_thr.ts,
             delta_time |-> t.delta_time,
             distance_fap_to_thr |-> t.distance_fap_to_thr,
             delta_time_fap_to_thr |-> t.delta_time_fap_to_thr]]

\* A float field of a summary record that holds Python's None, or NaN.
PyNone ==
    [null |-> "None"]

FloatNaN ==
    [null |-> "NaN"]

\* Lines 433-438: the three values from the previous report and the FAP
\* report; a null coordinate or altitude of the previous report gives NaN.
KinematicsOf(previous_point, point, ts_diff) ==
    LET dt == Frac(ts_diff, 1000)
    IN  [speed_fap |->
             IF previous_point.pos = None THEN FloatNaN
             ELSE Frac(haversine(point.pos, previous_point.pos) * dt.den, dt.num),
         vertical_speed_fap |->
             IF previous_point.altitude = NaN \/ point.altitude = NaN THEN FloatNaN
             ELSE Frac((point.altitude - previous_point.altitude) * dt.den, dt.num),
         heading_fap |->
             IF previous_point.pos = None THEN FloatNaN
             ELSE Frac(compute_bearing(previous_point.pos, point.pos), 1000)]

\* Faulty variant of Kinematics: the preceding report is taken in the row
\* order of the group, not in timestamp order.
Kinematics_row_order(group_df_sorted, group_df, nearest_fap) ==
    LET fap_pos == get_loc(group_df, nearest_fap.index)
    IN  IF fap_pos > 1 /\ nearest_fap.ts - group_df[fap_pos - 1].ts > 0
        THEN KinematicsOf(group_df[fap_pos - 1], nearest_fap.point,
                          nearest_fap.ts - group_df[fap_pos - 1].ts)
        ELSE [speed_fap |-> PyNone, vertical_speed_fap |-> PyNone, heading_fap |-> PyNone]

\* Lines 420-442: speed, vertical speed and heading at the FAP report, from
\* the report before it in the copy sorted by ts (positions count from 1;
\* the labels of a dataframe are distinct, so get_loc gives one position).
Kinematics(group_df_sorted, group_df, nearest_fap) ==
    LET fap_pos == get_loc(group_df_sorted, nearest_fap.index)
    IN  IF fap_pos > 1 /\ nearest_fap.ts - group_df_sorted[fap_pos - 1].ts > 0
        THEN KinematicsOf(group_df_sorted[fap_pos - 1], nearest_fap.point,
                          nearest_fap.ts - group_df_sorted[fap_pos - 1].ts)
        ELSE [speed_fap |-> PyNone, vertical_speed_fap |-> PyNone, heading_fap |-> PyNone]

\* Lines 445-463: the summary record of an accepted group.
BasicInfo(icao24, nearest_fap, nearest_thr, kinematics) ==
    LET t == Timing(nearest_fap, nearest_thr)
    IN  [icao24 |-> icao24, runway_fap |-> nearest_fap.runway,
         idx_fap |-> nearest_fap.index, idx_thr |-> nearest_thr.index,
         ts_fap |-> nearest_fap.ts, ts_thr |-> nearest_thr.ts,
         pos_fap |-> nearest_fap.point.pos, pos_thr |-> nearest_thr.point.pos,
         distance |-> t.distance, delta_time |-> t.delta_time,
         distance_fap_to_thr |-> t.distance_fap_to_thr,
         delta_time_fap_to_thr |-> t.delta_time_fap_to_thr,
         speed_fap |-> kinematics.speed_fap,
         vertical_speed_fap |-> kinematics.vertical_speed_fap,
         heading_fap |-> kinematics.heading_fap]

\* pd.DataFrame(basic_info_results): in a column that holds a number, None
\* becomes NaN; a column of None only keeps None.
DataFrame(records) ==
    LET convert(name, value) ==
            IF value = PyNone /\ \E j \in 1..Len(records) : records[j][name] # PyNone
            THEN FloatNaN ELSE value
    IN  [j \in 1..Len(records) |->
            [records[j] EXCEPT
                !.speed_fap = convert("speed_fap", @),
                !.vertical_speed_fap = convert("vertical_speed_fap", @),
                !.heading_fap = convert("heading_fap", @)]]

\* Faulty variant of SegmentIls: the rows from the FAP report to the
\* threshold report, none when the threshold report comes first.
SegmentIls_fap_first(group_df, nearest_fap, nearest_thr) ==
    LET pos_fap == get_loc(group_df, nearest_fap.index)
        pos_thr == get_loc(group_df, nearest_thr.index)
    IN  SubSeq(group_df, pos_fap, pos_thr)

\* Lines 469-477: the rows from the lower to the higher of the two positions.
SegmentIls(group_df, nearest_fap, nearest_thr) ==
    LET pos_fap == get_loc(group_df, nearest_fap.index)
        pos_thr == get_loc(group_df, nearest_thr.index)
        start_pos == IF pos_fap < pos_thr THEN pos_fap ELSE pos_thr
        end_pos == IF pos_fap < pos_thr THEN pos_thr ELSE pos_fap
    IN  SubSeq(group_df, start_pos, end_pos)

\* The assignments of n rows to at most MaxGroups groups, in group order.
GroupOrders(n) ==
    {f \in [1..n -> 1..Len(Keys)] :
        /\ \A i \in 1..n, j \in 1..n : i < j => f[i] <= f[j]
        /\ Cardinality({f[i] : i \in 1..n}) <= MaxGroups}

\* The argument of identify_landing_runway: at most MaxRows rows in group
\* order, every group with one trajectory class.
LrInit ==
    /\ pc = "call"
    /\ \E n \in 0..MaxRows :
         \E ks \in GroupOrders(n) :
           \E ps \in {f \in [1..n -> AttrPositions \cup {None}] :
                         \A i \in 1..n : f[i] \in KeyPositions[ks[i]]} :
             \E tr \in [{ks[i] : i \in 1..n} -> Trajectories] :
               df_in = [i \in 1..n |-> TaggedRow(i, Keys[ks[i]], tr[ks[i]], ps[i])]
    /\ df_filt = << >>
    /\ grouped = << >>
    /\ results = << >>
    /\ basic_info_results = << >>
    /\ segments_ils_results = << >>
    /\ printed = << >>
    /\ df_with_runway = << >>
    /\ basic_info_df = << >>
    /\ df_segments_ils = << >>
    /\ FnIdle
    /\ SgIdle
    /\ ChIdle
    /\ ScIdle
    /\ DmIdle
    /\ SmIdle

\* Lines 343-352: filter the trajectories and group.
LrEnter ==
    /\ pc = "call"
    /\ df_filt' = FilterTrajectories(df_in)
    /\ grouped' = GroupKeys(df_filt')
    /\ pc' = "loop"
    /\ UNCHANGED << df_in, results, basic_info_results, segments_ils_results,
                    printed, df_with_runway, basic_info_df, df_segments_ils, fn_vars, sg_vars, ch_vars, sc_vars, dm_vars, sm_vars >>

\* Lines 365-378: a failed check prints one line and skips the group.
LrReject(reason) ==
    LET group_df == GroupRows(df_filt, Head(grouped))
    IN  /\ pc = "loop"
        /\ grouped # << >>
        /\ Verdict(group_df) = reason
        /\ printed' = Append(printed, [icao24 |-> Head(grouped)[1],
                                        ts |-> group_df[1].ts, reason |-> reason])
        /\ grouped' = Tail(grouped)
        /\ UNCHANGED << pc, df_in, df_filt, results, basic_info_results,
                        segments_ils_results, df_with_runway, basic_info_df,
                        df_segments_ils, fn_vars, sg_vars, ch_vars, sc_vars, dm_vars, sm_vars >>

LrRejectRunway ==
    LrReject("runways do not match")

LrRejectFap ==
    LrReject("FAP distance too large")

LrRejectThr ==
    LrReject("THR distance too large")

\* Lines 361-362 on a group without any row with coordinates: the exception
\* of find_nearest_point propagates to the caller.
LrRaise ==
    /\ pc = "loop"
    /\ grouped # << >>
    /\ Verdict(GroupRows(df_filt, Head(grouped))) = "raise"
    /\ pc' = "raised"
    /\ UNCHANGED << df_in, df_filt, grouped, results, basic_info_results,
                    segments_ils_results, printed, df_with_runway, basic_info_df,
                    df_segments_ils, fn_vars, sg_vars, ch_vars, sc_vars, dm_vars, sm_vars >>

\* Lines 380-481: an accepted group.
LrAccept ==
    LET group_df == GroupRows(df_filt, Head(grouped))
        nearest_fap == find_nearest_point(FAP_position, group_df)
        nearest_thr == find_nearest_point(threshold_position, group_df)
        augmented == Augment(group_df, nearest_fap, nearest_thr)
    IN  /\ pc = "loop"
        /\ grouped # << >>
        /\ Verdict(group_df) = "accept"
        /\ \E group_df_sorted \in SortedByTs(augmented) :
             basic_info_results' =
               Append(basic_info_results,
                      BasicInfo(Head(grouped)[1], nearest_fap, nearest_thr,
                                Kinematics(group_df_sorted, augmented, nearest_fap)))
        /\ segments_ils_results' =
               Append(segments_ils_results,
                      SegmentIls(augmented, nearest_fap, nearest_thr))
        /\ results' = Append(results, augmented)
        /\ grouped' = Tail(grouped)
        /\ UNCHANGED << pc, df_in, df_filt, printed, df_with_runway, basic_info_df,
                        df_segments_ils, fn_vars, sg_vars, ch_vars, sc_vars, dm_vars, sm_vars >>

\* Line 484 with an empty list: pd.concat raises ValueError.
LrConcatRaise ==
    /\ pc = "loop"
    /\ grouped = << >>
    /\ results = << >>
    /\ pc' = "raised"
    /\ UNCHANGED << df_in, df_filt, grouped, results, basic_info_results,
                    segments_ils_results, printed, df_with_runway, basic_info_df,
                    df_segments_ils, fn_vars, sg_vars, ch_vars, sc_vars, dm_vars, sm_vars >>

\* Lines 484-492: the three tables are built and returned.
LrReturn ==
    /\ pc = "loop"
    /\ grouped = << >>
    /\ results # << >>
    /\ df_with_runway' = reset_index(concat(results))
    /\ basic_info_df' = DataFrame(basic_info_results)
    /\ df_segments_ils' = reset_index(concat(segments_ils_results))
    /\ pc' = "returned"
    /\ UNCHANGED << df_in, df_filt, grouped, results, basic_info_results,
                    segments_ils_results, printed, fn_vars, sg_vars, ch_vars, sc_vars, dm_vars, sm_vars >>

Next ==
    \/ LrEnter
    \/ LrRejectRunway
    \/ LrRejectFap
    \/ LrRejectThr
    \/ LrRaise
    \/ LrAccept
    \/ LrConcatRaise
    \/ LrReturn

Spec ==
    LrInit /\ [][Next]_vars

\* The argument of identify_landing_runway is one 'landing' segment of at
\* most MaxApproachRows reports whose timestamps are in any order and may
\* repeat.
ApproachInit ==
    /\ pc = "call"
    /\ \E n \in 0..MaxApproachRows :
         \E ps \in [1..n -> AttrPositions \cup {None}] :
           \E ts \in [1..n -> ApproachTimes] :
             df_in = [i \in 1..n |->
                         [TaggedRow(i, Keys[1], "landing", ps[i])
                             EXCEPT !.ts = ts[i] * TsStep]]
    /\ df_filt = << >>
    /\ grouped = << >>
    /\ results = << >>
    /\ basic_info_results = << >>
    /\ segments_ils_results = << >>
    /\ printed = << >>
    /\ df_with_runway = << >>
    /\ basic_info_df = << >>
    /\ df_segments_ils = << >>
    /\ FnIdle
    /\ SgIdle
    /\ ChIdle
    /\ ScIdle
    /\ DmIdle
    /\ SmIdle

SpecApproach ==
    ApproachInit /\ [][Next]_vars

\* ---------------------------------------------------------------------
\* identify_landing_runway_backwards and find_last_no_turning_point
\* ---------------------------------------------------------------------
\* float(runway[:2]) * 10, in thousandths of a degree.
RunwayHeading(runway) ==
    CASE runway = "18R" -> 180 * 1000
      [] runway = "18L" -> 180 * 1000
      [] runway = "32L" -> 320 * 1000
      [] runway = "32R" -> 320 * 1000

\* Line 267, in thousandths of a degree.
HeadingOffset ==
    10 * 1000

\* Lines 269 and 278: the bearing from a row to the matched threshold
\* report (nearest_thr["point"]) and whether it is within the offset of the
\* runway heading; a row without coordinates has bearing NaN, not in range.
WithinRange(row, nearest_thr) ==
    /\ row.pos # None
    /\ calculate_bearing(row.pos, nearest_thr.point.pos)
           >= RunwayHeading(nearest_thr.runway) - HeadingOffset
    /\ calculate_bearing(row.pos, nearest_thr.point.pos)
           <= RunwayHeading(nearest_thr.runway) + HeadingOffset

\* Lines 263-293.  within_range.unique()[0] is the value of the first row.
find_last_no_turning_point(group_df, nearest_thr) ==
    IF ~WithinRange(group_df[1], nearest_thr)
    THEN PyNone
    ELSE LET last_true ==
                 Max({i \in 1..Len(group_df) : WithinRange(group_df[i], nearest_thr)})
         IN  [distance |-> 0, runway |-> nearest_thr.runway,
              point |-> group_df[last_true], index |-> group_df[last_true].idx,
              ts |-> group_df[last_true].ts]

\* Lines 513-534: the two matches of a group and the outcome of the checks.
BackwardsVerdict(group_df) ==
    LET nearest_thr == find_nearest_point(threshold_position, group_df)
        nearest_fap == find_last_no_turning_point(group_df, nearest_thr)
    IN  IF IsRaised(nearest_thr) THEN "raise"
        ELSE IF nearest_fap = PyNone THEN "heading do not match"
        ELSE IF nearest_fap.runway # nearest_thr.runway THEN "runways do not match"
        ELSE IF nearest_fap.distance > MaxDistance THEN "FAP distance too large"
        ELSE IF nearest_thr.distance > MaxDistance THEN "THR distance too large"
        ELSE "accept"

\* Lines 269, 278 and 537-547: the group's rows with the columns bearing and
\* within_range of find_last_no_turning_point and the attribution columns.
BackwardsAugment(group_df, nearest_fap, nearest_thr) ==
    [i \in 1..Len(group_df) |->
        group_df[i] @@
        [bearing |-> IF group_df[i].pos = None THEN FloatNaN
                     ELSE Frac(calculate_bearing(group_df[i].pos, nearest_thr.point.pos), 1000),
         within_range |-> WithinRange(group_df[i], nearest_thr),
         runway_fap |-> nearest_fap.runway, runway_thr |-> nearest_thr.runway,
         idx_fap |-> nearest_fap.index, idx_thr |-> nearest_thr.index,
         ts_fap |-> nearest_fap.ts, ts_thr |-> nearest_thr.ts,
         delta_time |-> Seconds(nearest_thr.ts - nearest_fap.ts)]]

\* Lines 552-574: the summary record of an accepted group.
BackwardsBasicInfo(icao24, nearest_fap, nearest_thr) ==
    [icao24 |-> icao24, runway_fap |-> nearest_fap.runway,
     idx_fap |-> nearest_fap.index, idx_thr |-> nearest_thr.index,
     ts_fap |-> nearest_fap.ts, ts_thr |-> nearest_thr.ts,
     delta_time |-> Seconds(nearest_thr.ts - nearest_fap.ts),
     pos_fap |-> nearest_fap.point.pos, pos_thr |-> nearest_thr.point.pos,
     distance_fap_to_thr |-> haversine(nearest_fap.point.pos, nearest_thr.point.pos)]

\* The argument of identify_landing_runway_backwards: one segment of at
\* most MaxBackwardsRows reports.
BackwardsInit ==
    /\ pc = "call"
    /\ \E n \in 0..MaxBackwardsRows :
         \E ps \in [1..n -> BackwardsPositions \cup {None}] :
           \E tr \in Trajectories :
             df_in = [i \in 1..n |-> TaggedRow(i, Keys[1], tr, ps[i])]
    /\ df_filt = << >>
    /\ grouped = << >>
    /\ results = << >>
    /\ basic_info_results = << >>
    /\ segments_ils_results = << >>
    /\ printed = << >>
    /\ df_with_runway = << >>
    /\ basic_info_df = << >>
    /\ df_segments_ils = << >>
    /\ FnIdle
    /\ SgIdle
    /\ ChIdle
    /\ ScIdle
    /\ DmIdle
    /\ SmIdle

\* Lines 495-503: filter the trajectories and group.
BackwardsEnter ==
    /\ pc = "call"
    /\ df_filt' = FilterTrajectories(df_in)
    /\ grouped' = GroupKeys(df_filt')
    /\ pc' = "loop"
    /\ UNCHANGED << df_in, results, basic_info_results, segments_ils_results,
                    printed, df_with_runway, basic_info_df, df_segments_ils, fn_vars, sg_vars, ch_vars, sc_vars, dm_vars, sm_vars >>

\* Lines 516-534: a failed check prints one line and skips the group.
BackwardsReject ==
    LET group_df == GroupRows(df_filt, Head(grouped))
    IN  /\ pc = "loop"
        /\ grouped # << >>
        /\ \E reason \in {"heading do not match", "runways do not match",
                           "FAP distance too large", "THR distance too large"} :
             /\ BackwardsVerdict(group_df) = reason
             /\ printed' = Append(printed, [icao24 |-> Head(grouped)[1],
                                             ts |-> group_df[1].ts, reason |-> reason])
        /\ grouped' = Tail(grouped)
        /\ UNCHANGED << pc, df_in, df_filt, results, basic_info_results,
                        segments_ils_results, df_with_runway, basic_info_df,
                        df_segments_ils, fn_vars, sg_vars, ch_vars, sc_vars, dm_vars, sm_vars >>

\* Line 513 on a group without any row with coordinates: the exception of
\* find_nearest_point propagates to the caller.
BackwardsRaise ==
    /\ pc = "loop"
    /\ grouped # << >>
    /\ BackwardsVerdict(GroupRows(df_filt, Head(grouped))) = "raise"
    /\ pc' = "raised"
    /\ UNCHANGED << df_in, df_filt, grouped, results, basic_info_results,
                    segments_ils_results, printed, df_with_runway, basic_info_df,
                    df_segments_ils, fn_vars, sg_vars, ch_vars, sc_vars, dm_vars, sm_vars >>

\* Lines 536-589: an accepted group.
BackwardsAccept ==
    LET group_df == GroupRows(df_filt, Head(grouped))
        nearest_thr == find_nearest_point(threshold_position, group_df)
        nearest_fap == find_last_no_turning_point(group_df, nearest_thr)
        augmented == BackwardsAugment(group_df, nearest_fap, nearest_thr)
    IN  /\ pc = "loop"
        /\ grouped # << >>
        /\ BackwardsVerdict(group_df) = "accept"
        /\ results' = Append(results, augmented)
        /\ basic_info_results' =
               Append(basic_info_results,
                      BackwardsBasicInfo(Head(grouped)[1], nearest_fap, nearest_thr))
        /\ segments_ils_results' =
               Append(segments_ils_results,
                      SegmentIls(augmented, nearest_fap, nearest_thr))
        /\ grouped' = Tail(grouped)
        /\ UNCHANGED << pc, df_in, df_filt, printed, df_with_runway, basic_info_df,
                        df_segments_ils, fn_vars, sg_vars, ch_vars, sc_vars, dm_vars, sm_vars >>

\* Line 592 with an empty list: pd.concat raises ValueError.
BackwardsConcatRaise ==
    /\ pc = "loop"
    /\ grouped = << >>
    /\ results = << >>
    /\ pc' = "raised"
    /\ UNCHANGED << df_in, df_filt, grouped, results, basic_info_results,
                    segments_ils_results, printed, df_with_runway, basic_info_df,
                    df_segments_ils, fn_vars, sg_vars, ch_vars, sc_vars, dm_vars, sm_vars >>

\* Lines 592-600: the three tables are built and returned.
BackwardsReturn ==
    /\ pc = "loop"
    /\ grouped = << >>
    /\ results # << >>
    /\ df_with_runway' = reset_index(concat(results))
    /\ basic_info_df' = basic_info_results
    /\ df_segments_ils' = reset_index(concat(segments_ils_results))
    /\ pc' = "returned"
    /\ UNCHANGED << df_in, df_filt, grouped, results, basic_info_results,
                    segments_ils_results, printed, fn_vars, sg_vars, ch_vars, sc_vars, dm_vars, sm_vars >>

BackwardsNext ==
    \/ BackwardsEnter
    \/ BackwardsReject
    \/ BackwardsRaise
    \/ BackwardsAccept
    \/ BackwardsConcatRaise
    \/ BackwardsReturn

SpecBackwards ==
    BackwardsInit /\ [][BackwardsNext]_vars

\* ---------------------------------------------------------------------
\* identify_segments
\* ---------------------------------------------------------------------
\* The default of the parameter time_gap_threshold (s).
time_gap_threshold ==
    3600

\* The keys of df.groupby('icao24'), in iteration order.
IcaoKeys(d) ==
    SelectSeq(Aircraft, LAMBDA a : \E i \in 1..Len(d) : d[i].icao24 = a)

IcaoRows(d, icao) ==
    SelectSeq(d, LAMBDA row : row.icao24 = icao)

\* Faulty variant of time_gap: the difference is left in milliseconds.
time_gap_ms(group, i) ==
    IF i = 1 THEN Frac(0, 1) ELSE Frac(group[i].ts - group[i - 1].ts, 1)

\* group['ts'].diff().fillna(0) / 1000, in seconds.
time_gap(group, i) ==
    IF i = 1 THEN Seconds(0) ELSE Seconds(group[i].ts - group[i - 1].ts)

\* Faulty variant of NewSegment: a gap equal to the threshold starts a segment.
NewSegment_ge(group, i) ==
    time_gap(group, i).num >= time_gap_threshold * time_gap(group, i).den

\* group['time_gap'] > time_gap_threshold
NewSegment(group, i) ==
    Greater(time_gap(group, i), time_gap_threshold)

\* (group['time_gap'] > time_gap_threshold).cumsum()
SegmentOf(group, i) ==
    Cardinality({j \in 1..i : NewSegment(group, j)})

\* GroupBy 'first' and 'last': the first and the last non-null value.
FirstValid(values) ==
    IF \A i \in 1..Len(values) : values[i] = NaN THEN NaN
    ELSE values[Min({i \in 1..Len(values) : values[i] # NaN})]

LastValid(values) ==
    IF \A i \in 1..Len(values) : values[i] = NaN THEN NaN
    ELSE values[-Min({-i : i \in {j \in 1..Len(values) : values[j] # NaN}})]

\* Faulty variant of Classify: 'departing' and 'landing' exchanged.
Classify_swapped(start_altitude, end_altitude) ==
    IF start_altitude = NaN \/ end_altitude = NaN THEN "level"
    ELSE IF end_altitude - start_altitude > 0 THEN "landing"
    ELSE IF end_altitude - start_altitude < 0 THEN "departing"
    ELSE "level"

\* Faulty variant of Classify: every altitude change is a landing.
Classify_any_change(start_altitude, end_altitude) ==
    IF start_altitude = NaN \/ end_altitude = NaN THEN "level"
    ELSE IF end_altitude - start_altitude # 0 THEN "landing"
    ELSE "level"

\* Lines 206-212: the class of an altitude change (NaN compares false).
Classify(start_altitude, end_altitude) ==
    IF start_altitude = NaN \/ end_altitude = NaN THEN "level"
    ELSE IF end_altitude - start_altitude > 0 THEN "departing"
    ELSE IF end_altitude - start_altitude < 0 THEN "landing"
    ELSE "level"

\* Lines 198-215: the summary of the segments of one sorted group.
SegSummary(icao, group) ==
    LET nseg == SegmentOf(group, Len(group))
        rows(sg) == SelectSeq([i \in 1..Len(group) |-> [group[i] EXCEPT !.idx = SegmentOf(group, i)]],
                              LAMBDA row : row.idx = sg)
        column(sg, name) == [i \in 1..Len(rows(sg)) |-> rows(sg)[i][name]]
    IN  [n \in 1..(nseg + 1) |->
            LET start_altitude == FirstValid(column(n - 1, "altitude"))
                end_altitude == LastValid(column(n - 1, "altitude"))
            IN  [segment |-> n - 1,
                 start_time |-> FirstValid(column(n - 1, "ts")),
                 end_time |-> LastValid(column(n - 1, "ts")),
                 start_altitude |-> start_altitude,
                 end_altitude |-> end_altitude,
                 altitude_change |->
                     IF start_altitude = NaN \/ end_altitude = NaN THEN NaN
                     ELSE end_altitude - start_altitude,
                 trajectory |-> Classify(start_altitude, end_altitude),
                 icao24 |-> icao]]

\* Faulty variant of Annotate: the report that opens a new segment is lost.
Annotate_without_gap_rows(icao, group) ==
    LET seg_summary == SegSummary(icao, group)
        kept == SelectSeq([i \in 1..Len(group) |-> i],
                          LAMBDA i : ~NewSegment(group, i))
    IN  [k \in 1..Len(kept) |->
            [idx |-> k - 1, icao24 |-> icao, ts |-> group[kept[k]].ts,
             altitude |-> group[kept[k]].altitude, pos |-> group[kept[k]].pos,
             time_gap |-> time_gap(group, kept[k]),
             segment |-> SegmentOf(group, kept[k]),
             trajectory |-> seg_summary[SegmentOf(group, kept[k]) + 1].trajectory]]

\* Lines 191-221: the sorted group with time_gap, segment and trajectory;
\* the merge gives the rows the labels 0 .. n-1.
Annotate(icao, group) ==
    LET seg_summary == SegSummary(icao, group)
    IN  [i \in 1..Len(group) |->
            [idx |-> i - 1, icao24 |-> icao, ts |-> group[i].ts,
             altitude |-> group[i].altitude, pos |-> group[i].pos,
             time_gap |-> time_gap(group, i),
             segment |-> SegmentOf(group, i),
             trajectory |-> seg_summary[SegmentOf(group, i) + 1].trajectory]]

\* The i-th row of a dataframe given to identify_segments.
RawRow(i, icao, ts, altitude, pos) ==
    [idx |-> i - 1, icao24 |-> icao, ts |-> ts, altitude |-> altitude, pos |-> pos]

SgInit ==
    /\ sg_pc = "call"
    /\ \E n \in 0..MaxSegRows :
         \E rs \in [1..n -> SegReports] :
           sg_df = [i \in 1..n |-> RawRow(i, rs[i][1], rs[i][2], rs[i][3], "P_FAP32L_700m")]
    /\ sg_icaos = << >>
    /\ annotated_list = << >>
    /\ segment_summary_list = << >>
    /\ annotated_df = << >>
    /\ segment_summary = << >>
    /\ FnIdle
    /\ LrIdle
    /\ ChIdle
    /\ ScIdle
    /\ DmIdle
    /\ SmIdle

\* Lines 182-186: group by aircraft.
SgEnter ==
    /\ sg_pc = "call"
    /\ sg_icaos' = IcaoKeys(sg_df)
    /\ sg_pc' = "loop"
    /\ UNCHANGED << sg_df, annotated_list, segment_summary_list, annotated_df,
                    segment_summary, fn_vars, lr_vars, ch_vars, sc_vars, dm_vars, sm_vars >>

\* Lines 186-225: one aircraft.
SgAircraft ==
    /\ sg_pc = "loop"
    /\ sg_icaos # << >>
    /\ \E group \in SortedByTs(IcaoRows(sg_df, Head(sg_icaos))) :
         /\ annotated_list' = Append(annotated_list, Annotate(Head(sg_icaos), group))
         /\ segment_summary_list' =
                Append(segment_summary_list, SegSummary(Head(sg_icaos), group))
    /\ sg_icaos' = Tail(sg_icaos)
    /\ UNCHANGED << sg_pc, sg_df, annotated_df, segment_summary, fn_vars, lr_vars, ch_vars, sc_vars, dm_vars, sm_vars >>

\* Line 228 with an empty list (an argument without rows): pd.concat raises.
SgConcatRaise ==
    /\ sg_pc = "loop"
    /\ sg_icaos = << >>
    /\ annotated_list = << >>
    /\ sg_pc' = "raised"
    /\ UNCHANGED << sg_df, sg_icaos, annotated_list, segment_summary_list,
                    annotated_df, segment_summary, fn_vars, lr_vars, ch_vars, sc_vars, dm_vars, sm_vars >>

\* Lines 228-231.
SgReturn ==
    /\ sg_pc = "loop"
    /\ sg_icaos = << >>
    /\ annotated_list # << >>
    /\ annotated_df' = reset_index(concat(annotated_list))
    /\ segment_summary' = concat(segment_summary_list)
    /\ sg_pc' = "returned"
    /\ UNCHANGED << sg_df, sg_icaos, annotated_list, segment_summary_list,
                    fn_vars, lr_vars, ch_vars, sc_vars, dm_vars, sm_vars >>

SgNext ==
    \/ SgEnter
    \/ SgAircraft
    \/ SgConcatRaise
    \/ SgReturn

SpecSeg ==
    SgInit /\ [][SgNext]_vars

\* ---------------------------------------------------------------------
\* process_adsb_data_1day (src/tools_process.py), from the raw dataframe to
\* the call of identify_landing_runway.  pc is the position in the pipeline
\* and df_in the dataframe it carries from step to step.
\* ---------------------------------------------------------------------
\* Latitude and longitude of the positions, in millionths of a degree
\* (rounded down).
LatLon ==
    [ FAP_18R |-> [lat_deg |-> 40771944, lon_deg |-> -3576112],
      FAP_18L |-> [lat_deg |-> 40707222, lon_deg |-> -3560278],
      FAP_32L |-> [lat_deg |-> 40381111, lon_deg |-> -3470834],
      FAP_32R |-> [lat_deg |-> 40350000, lon_deg |-> -3411112],
      THR_18R |-> [lat_deg |-> 40530218, lon_deg |-> -3574839],
      THR_32L |-> [lat_deg |-> 40456477, lon_deg |-> -3547192],
      THR_32R |-> [lat_deg |-> 40470008, lon_deg |-> -3532581],
      THR_18L |-> [lat_deg |-> 40532622, lon_deg |-> -3559381],
      P_FAP32L_222m |-> [lat_deg |-> 40383111, lon_deg |-> -3470834],
      P_FAP32L_700m |-> [lat_deg |-> 40387368, lon_deg |-> -3469925],
      P_FAP32L_701m |-> [lat_deg |-> 40387406, lon_deg |-> -3470834],
      P_THR32L_300m |-> [lat_deg |-> 40454477, lon_deg |-> -3544692],
      P_THR32L_900m |-> [lat_deg |-> 40450477, lon_deg |-> -3554192],
      P_THR32R_200m |-> [lat_deg |-> 40468508, lon_deg |-> -3531581],
      P_THR_TIE |-> [lat_deg |-> 40463262, lon_deg |-> -3539918],
      P_OUT |-> [lat_deg |-> 40250000, lon_deg |-> -3350000] ]

\* tools_process.py line 99, in millionths of a degree.
GeoBounds ==
    [min_lat |-> 40300000, max_lat |-> 40800000,
     min_lon |-> -3800000, max_lon |-> -3300000]

\* tools_process.py line 103, in feet.
AltitudeBounds ==
    [min_alt |-> -1000, max_alt |-> 10000]

\* clean_dataframe_nulls(df, ['altitude', 'lat_deg', 'lon_deg']): the rows
\* with a null in one of the fields are dropped; the labels are kept.
clean_dataframe_nulls(df) ==
    SelectSeq(df, LAMBDA row : row.altitude # NaN /\ row.pos # None)

\* extract_adsb_columns(df, None): the columns icao24, altitude, lat_deg,
\* lon_deg and ts of each row.
extract_adsb_columns(df) ==
    [i \in 1..Len(df) |->
        [idx |-> df[i].idx, icao24 |-> df[i].icao24, altitude |-> df[i].altitude,
         pos |-> df[i].pos, ts |-> df[i].ts]]

\* Faulty variant of sort_dataframe: the rows are ordered by ts alone.
sort_dataframe_by_ts(df) ==
    LET n == Len(df)
        before(a, b) ==
            \/ df[a].ts < df[b].ts
            \/ df[a].ts = df[b].ts /\ a < b
        order == CHOOSE p \in [1..n -> 1..n] :
                    \A i, j \in 1..n : i < j => before(p[i], p[j])
    IN  reset_index([i \in 1..n |-> df[order[i]]])

\* sort_dataframe(df): sort_values(['icao24', 'ts']), which keeps the order
\* of rows with equal keys, then reset_index(drop=True).
sort_dataframe(df) ==
    LET n == Len(df)
        before(a, b) ==
            \/ IcaoRank(df[a].icao24) < IcaoRank(df[b].icao24)
            \/ df[a].icao24 = df[b].icao24 /\ df[a].ts < df[b].ts
            \/ df[a].icao24 = df[b].icao24 /\ df[a].ts = df[b].ts /\ a < b
        order == CHOOSE p \in [1..n -> 1..n] :
                    \A i, j \in 1..n : i < j => before(p[i], p[j])
    IN  reset_index([i \in 1..n |-> df[order[i]]])

\* Faulty variant of filter_dataframe_by_bounds: no lower latitude bound.
filter_dataframe_by_bounds_no_min_lat(df, min_lat, max_lat, min_lon, max_lon) ==
    SelectSeq(df, LAMBDA row :
        /\ row.pos # None
        /\ LatLon[row.pos].lat_deg <= max_lat
        /\ LatLon[row.pos].lon_deg >= min_lon /\ LatLon[row.pos].lon_deg <= max_lon)

\* tools_filter.py lines 114-134; a null coordinate compares false.
filter_dataframe_by_bounds(df, min_lat, max_lat, min_lon, max_lon) ==
    SelectSeq(df, LAMBDA row :
        /\ row.pos # None
        /\ LatLon[row.pos].lat_deg >= min_lat /\ LatLon[row.pos].lat_deg <= max_lat
        /\ LatLon[row.pos].lon_deg >= min_lon /\ LatLon[row.pos].lon_deg <= max_lon)

\* tools_filter.py lines 137-153; a null altitude compares false.
filter_dataframe_by_altitude(df, min_alt, max_alt) ==
    SelectSeq(df, LAMBDA row : row.altitude >= min_alt /\ row.altitude <= max_alt)

\* The raw dataframe: at most MaxPipelineRows reports with one more column
\* than the pipeline uses.
PipelineInit ==
    /\ pc = "clean"
    /\ \E n \in 0..MaxPipelineRows :
         \E rs \in [1..n -> PipelineReports] :
           df_in = [i \in 1..n |->
                       RawRow(i, rs[i][1], rs[i][2], rs[i][3], rs[i][4])
                       @@ [callsign |-> "IBE"]]
    /\ df_filt = << >>
    /\ grouped = << >>
    /\ results = << >>
    /\ basic_info_results = << >>
    /\ segments_ils_results = << >>
    /\ printed = << >>
    /\ df_with_runway = << >>
    /\ basic_info_df = << >>
    /\ df_segments_ils = << >>
    /\ FnIdle
    /\ SgIdle
    /\ ChIdle
    /\ ScIdle
    /\ DmIdle
    /\ SmIdle

\* tools_process.py lines 82-83.
PipelineClean ==
    /\ pc = "clean"
    /\ df_in' = clean_dataframe_nulls(df_in)
    /\ pc' = "extract"
    /\ UNCHANGED << df_filt, grouped, results, basic_info_results,
                    segments_ils_results, printed, df_with_runway, basic_info_df,
                    df_segments_ils, fn_vars, sg_vars, ch_vars, sc_vars, dm_vars, sm_vars >>

\* tools_process.py lines 86-87.
PipelineExtract ==
    /\ pc = "extract"
    /\ df_in' = extract_adsb_columns(df_in)
    /\ pc' = "sort"
    /\ UNCHANGED << df_filt, grouped, results, basic_info_results,
                    segments_ils_results, printed, df_with_runway, basic_info_df,
                    df_segments_ils, fn_vars, sg_vars, ch_vars, sc_vars, dm_vars, sm_vars >>

\* tools_process.py line 90.
PipelineSort ==
    /\ pc = "sort"
    /\ df_in' = sort_dataframe(df_in)
    /\ pc' = "segments"
    /\ UNCHANGED << df_filt, grouped, results, basic_info_results,
                    segments_ils_results, printed, df_with_runway, basic_info_df,
                    df_segments_ils, fn_vars, sg_vars, ch_vars, sc_vars, dm_vars, sm_vars >>

\* tools_process.py line 93: identify_segments is called with the sorted
\* dataframe.
PipelineSegments ==
    /\ pc = "segments"
    /\ sg_pc = "idle"
    /\ sg_df' = df_in
    /\ sg_pc' = "call"
    /\ UNCHANGED << sg_icaos, annotated_list, segment_summary_list, annotated_df,
                    segment_summary, fn_vars, lr_vars, ch_vars, sc_vars, dm_vars, sm_vars >>

\* tools_process.py lines 96-100: the annotated dataframe returned by
\* identify_segments is filtered by the geographic bounds.
PipelineBounds ==
    /\ pc = "segments"
    /\ sg_pc = "returned"
    /\ df_in' = filter_dataframe_by_bounds(annotated_df, GeoBounds.min_lat,
                     GeoBounds.max_lat, GeoBounds.min_lon, GeoBounds.max_lon)
    /\ pc' = "altitude"
    /\ UNCHANGED << df_filt, grouped, results, basic_info_results,
                    segments_ils_results, printed, df_with_runway, basic_info_df,
                    df_segments_ils, fn_vars, sg_vars, ch_vars, sc_vars, dm_vars, sm_vars >>

\* tools_process.py lines 103-104 and 116: the dataframe is filtered by
\* altitude and given to identify_landing_runway.
PipelineAltitude ==
    /\ pc = "altitude"
    /\ df_in' = filter_dataframe_by_altitude(df_in, AltitudeBounds.min_alt,
                                             AltitudeBounds.max_alt)
    /\ pc' = "call"
    /\ UNCHANGED << df_filt, grouped, results, basic_info_results,
                    segments_ils_results, printed, df_with_runway, basic_info_df,
                    df_segments_ils, fn_vars, sg_vars, ch_vars, sc_vars, dm_vars, sm_vars >>

PipelineNext ==
    \/ PipelineClean
    \/ PipelineExtract
    \/ PipelineSort
    \/ PipelineSegments
    \/ SgEnter
    \/ SgAircraft
    \/ SgConcatRaise
    \/ SgReturn
    \/ PipelineBounds
    \/ PipelineAltitude

SpecPipeline ==
    PipelineInit /\ [][PipelineNext]_vars

\* tools_process.py line 116 (model "fap"): the pipeline followed by the
\* call of identify_landing_runway on the filtered dataframe.  A group of
\* that dataframe always has coordinates, so find_nearest_point never
\* raises here.
AttributionReject ==
    \E reason \in {"runways do not match", "FAP distance too large",
                   "THR distance too large"} : LrReject(reason)

AttributionNext ==
    \/ PipelineNext
    \/ LrEnter
    \/ AttributionReject
    \/ LrAccept
    \/ LrConcatRaise
    \/ LrReturn

SpecAttribution ==
    PipelineInit /\ [][AttributionNext]_vars

\* ---------------------------------------------------------------------
\* The landing step of process_adsb_data_1day and its cache
\* (src/tools_process.py lines 109-186).  df_in is the dataframe the step
\* receives (the same in every run: the input is unchanged) and
\* df_with_runway, basic_info_df and df_segments_ils are the tables of the
\* current run.
\* ---------------------------------------------------------------------
\* The values of the model argument.
Models ==
    {"fap", "backwards"}

\* The indices of the groups whose checks all pass.
AcceptedGroups(verdicts) ==
    SelectSeq([n \in 1..Len(verdicts) |-> n], LAMBDA n : verdicts[n] = "accept")

\* Lines 380-482 for one accepted group: its rows of the three tables.
LandingMatchOf(augmented, icao24, nearest_fap, nearest_thr) ==
    [augmented |-> augmented,
     basic_info |-> BasicInfo(icao24, nearest_fap, nearest_thr,
                              Kinematics(CHOOSE g \in SortedByTs(augmented) : TRUE,
                                         augmented, nearest_fap)),
     segment_ils |-> SegmentIls(augmented, nearest_fap, nearest_thr)]

LandingMatchWith(group_df, nearest_fap, nearest_thr) ==
    LandingMatchOf(Augment(group_df, nearest_fap, nearest_thr), group_df[1].icao24,
                   nearest_fap, nearest_thr)

LandingMatch(group_df) ==
    LandingMatchWith(group_df, find_nearest_point(FAP_position, group_df),
                     find_nearest_point(threshold_position, group_df))

\* Lines 484-491: the three tables of the matches, or the exception of
\* find_nearest_point or pd.concat.
LandingResult(verdicts, matches, basic_info) ==
    IF \E n \in 1..Len(verdicts) : verdicts[n] = "raise" THEN Raised
    ELSE IF matches = << >> THEN Raised
    ELSE [df_with_runway |->
             reset_index(concat([k \in 1..Len(matches) |-> matches[k].augmented])),
          basic_info_df |-> basic_info,
          df_segments_ils |->
             reset_index(concat([k \in 1..Len(matches) |-> matches[k].segment_ils]))]

LandingGroups(filtered, keys) ==
    [n \in 1..Len(keys) |-> GroupRows(filtered, keys[n])]

LandingVerdicts(groups) ==
    [n \in 1..Len(groups) |-> Verdict(groups[n])]

LandingMatches(groups, accepted) ==
    [k \in 1..Len(accepted) |-> LandingMatch(groups[accepted[k]])]

LandingBasicInfo(matches) ==
    DataFrame([k \in 1..Len(matches) |-> matches[k].basic_info])

LandingOfMatches(verdicts, matches) ==
    LandingResult(verdicts, matches, LandingBasicInfo(matches))

LandingOfVerdicts(groups, verdicts) ==
    LandingOfMatches(verdicts, LandingMatches(groups, AcceptedGroups(verdicts)))

LandingOfGroups(groups) ==
    LandingOfVerdicts(groups, LandingVerdicts(groups))

LandingOfFiltered(filtered) ==
    LandingOfGroups(LandingGroups(filtered, GroupKeys(filtered)))

\* The result of a call of identify_landing_runway on a dataframe whose
\* groups have distinct timestamps.
identify_landing_runway(df) ==
    LandingOfFiltered(FilterTrajectories(df))

\* Lines 530-592 for one accepted group.
BackwardsMatchOf(augmented, icao24, nearest_fap, nearest_thr) ==
    [augmented |-> augmented,
     basic_info |-> BackwardsBasicInfo(icao24, nearest_fap, nearest_thr),
     segment_ils |-> SegmentIls(augmented, nearest_fap, nearest_thr)]

BackwardsMatchWith(group_df, nearest_fap, nearest_thr) ==
    BackwardsMatchOf(BackwardsAugment(group_df, nearest_fap, nearest_thr),
                     group_df[1].icao24, nearest_fap, nearest_thr)

BackwardsMatchFrom(group_df, nearest_thr) ==
    BackwardsMatchWith(group_df, find_last_no_turning_point(group_df, nearest_thr),
                       nearest_thr)

BackwardsMatch(group_df) ==
    BackwardsMatchFrom(group_df, find_nearest_point(threshold_position, group_df))

BackwardsVerdicts(groups) ==
    [n \in 1..Len(groups) |-> BackwardsVerdict(groups[n])]

BackwardsMatches(groups, accepted) ==
    [k \in 1..Len(accepted) |-> BackwardsMatch(groups[accepted[k]])]

BackwardsInfo(matches) ==
    [k \in 1..Len(matches) |-> matches[k].basic_info]

BackwardsOfMatches(verdicts, matches) ==
    LandingResult(verdicts, matches, BackwardsInfo(matches))

BackwardsOfVerdicts(groups, verdicts) ==
    BackwardsOfMatches(verdicts, BackwardsMatches(groups, AcceptedGroups(verdicts)))

BackwardsOfGroups(groups) ==
    BackwardsOfVerdicts(groups, BackwardsVerdicts(groups))

BackwardsOfFiltered(filtered) ==
    BackwardsOfGroups(LandingGroups(filtered, GroupKeys(filtered)))

\* The result of a call of identify_landing_runway_backwards.
identify_landing_runway_backwards(df) ==
    BackwardsOfFiltered(FilterTrajectories(df))

\* Lines 115-118: the call selected by the model argument.
LandingTables(m, df) ==
    IF m = "fap" THEN identify_landing_runway(df)
    ELSE identify_landing_runway_backwards(df)

\* No cache file exists and no run has started; the dataframe holds one
\* segment of at most MaxCacheRows reports.
CacheInit ==
    /\ ch_pc = "start"
    /\ model = ""
    /\ runs = 0
    /\ cache_file3 = NoFile
    /\ pc = "idle"
    /\ \E n \in 0..MaxCacheRows :
         \E ps \in [1..n -> BackwardsPositions \cup {None}] :
           \E tr \in {"landing", "level"} :
             df_in = [i \in 1..n |-> TaggedRow(i, Keys[1], tr, ps[i])]
    /\ df_filt = << >>
    /\ grouped = << >>
    /\ results = << >>
    /\ basic_info_results = << >>
    /\ segments_ils_results = << >>
    /\ printed = << >>
    /\ df_with_runway = << >>
    /\ basic_info_df = << >>
    /\ df_segments_ils = << >>
    /\ FnIdle
    /\ SgIdle
    /\ ScIdle
    /\ DmIdle
    /\ SmIdle

\* Line 29: a run of process_adsb_data_1day starts, with some model.
CacheCall ==
    /\ ch_pc \in {"start", "raised"}
    /\ runs < MaxRuns
    /\ \E m \in Models : model' = m
    /\ runs' = runs + 1
    /\ ch_pc' = "landing"
    /\ df_with_runway' = << >>
    /\ basic_info_df' = << >>
    /\ df_segments_ils' = << >>
    /\ UNCHANGED << pc, df_in, df_filt, grouped, results, basic_info_results,
                    segments_ils_results, printed, cache_file3, fn_vars, sg_vars, sc_vars, dm_vars, sm_vars >>

\* Lines 110-112: the cache file exists and the tables are read from it.
CacheLoad ==
    /\ ch_pc = "landing"
    /\ cache_file3.exists
    /\ df_with_runway' = cache_file3.tables.df_with_runway
    /\ basic_info_df' = cache_file3.tables.basic_info_df
    /\ df_segments_ils' = cache_file3.tables.df_segments_ils
    /\ ch_pc' = "analysis"
    /\ UNCHANGED << pc, df_in, df_filt, grouped, results, basic_info_results,
                    segments_ils_results, printed, model, runs, cache_file3,
                    fn_vars, sg_vars, sc_vars, dm_vars, sm_vars >>

\* Lines 113-123: no cache file; the tables are computed with the model of
\* this run and written to the cache file.
CacheCompute ==
    /\ ch_pc = "landing"
    /\ ~cache_file3.exists
    /\ cache_file3' = [exists |-> TRUE, tables |-> LandingTables(model, df_in)]
    /\ ~IsRaised(cache_file3'.tables)
    /\ df_with_runway' = cache_file3'.tables.df_with_runway
    /\ basic_info_df' = cache_file3'.tables.basic_info_df
    /\ df_segments_ils' = cache_file3'.tables.df_segments_ils
    /\ ch_pc' = "analysis"
    /\ UNCHANGED << pc, df_in, df_filt, grouped, results, basic_info_results,
                    segments_ils_results, printed, model, runs, fn_vars, sg_vars, sc_vars, dm_vars, sm_vars >>

\* Lines 115-118 when the call raises: the run ends and no file is written.
CacheComputeRaise ==
    /\ ch_pc = "landing"
    /\ ~cache_file3.exists
    /\ IsRaised(LandingTables(model, df_in))
    /\ ch_pc' = "raised"
    /\ UNCHANGED << lr_vars, model, runs, cache_file3, fn_vars, sg_vars, sc_vars, dm_vars, sm_vars >>

\* Lines 132-137: the summary table has the column delta_time_fap_to_thr
\* and is filtered by it; compute_delta_time_statistics is then called with
\* the keyword output_prefix, which it does not take (tools_calculate.py
\* line 61): TypeError, and lines 138-186 never run.
CacheStatisticsRaise ==
    /\ ch_pc = "analysis"
    /\ \A j \in 1..Len(basic_info_df) :
          "delta_time_fap_to_thr" \in DOMAIN basic_info_df[j]
    /\ ch_pc' = "raised"
    /\ UNCHANGED << lr_vars, model, runs, cache_file3, fn_vars, sg_vars, sc_vars, dm_vars, sm_vars >>

\* Line 132 on a summary table without that column: KeyError.
CacheAnalysisRaise ==
    /\ ch_pc = "analysis"
    /\ \E j \in 1..Len(basic_info_df) :
          "delta_time_fap_to_thr" \notin DOMAIN basic_info_df[j]
    /\ ch_pc' = "raised"
    /\ UNCHANGED << lr_vars, model, runs, cache_file3, fn_vars, sg_vars, sc_vars, dm_vars, sm_vars >>

CacheNext ==
    \/ CacheCall
    \/ CacheLoad
    \/ CacheCompute
    \/ CacheComputeRaise
    \/ CacheStatisticsRaise
    \/ CacheAnalysisRaise

SpecCache ==
    CacheInit /\ [][CacheNext]_vars

\* ---------------------------------------------------------------------
\* compute_score (src/cost_functions.py; the copies in src/tools_prob.py and
\* src/compute_score.py are the same).  Times are whole multiples of
\* 1/Resolution second and scores whole multiples of 1/Resolution^2.
\* ---------------------------------------------------------------------
\* The number of time units in a second.
Resolution ==
    2

\* Real values and predictions, in time units: 100 s and 101 s, and
\* predictions up to 1.5 s either side of 100 s.
TrueValues ==
    {200, 202}

PredictionValues ==
    197..203

Abs(x) ==
    IF x < 0 THEN -x ELSE x

\* Lines 17-21: pow(abs(delta), 2) when delta >= 0, pow(abs(delta), 1)
\* otherwise, in units of 1/Resolution^2.
Score(y_prediction, y_true) ==
    LET delta == y_prediction - y_true
    IN  IF delta >= 0 THEN Abs(delta) * Abs(delta) ELSE Abs(delta) * Resolution

RECURSIVE sum(_)
sum(values) ==
    IF values = << >> THEN 0 ELSE Head(values) + sum(Tail(values))

ScoreInit ==
    /\ sc_pc = "call"
    /\ \E n, m \in 0..MaxScores :
         /\ y_prediction_seconds \in [1..n -> PredictionValues]
         /\ y_true_seconds \in [1..m -> TrueValues]
    /\ individual_scores = << >>
    /\ final_score = 0
    /\ FnIdle
    /\ LrIdle
    /\ SgIdle
    /\ ChIdle
    /\ DmIdle
    /\ SmIdle

\* Lines 13-14: lists of different lengths.
ScoreRaise ==
    /\ sc_pc = "call"
    /\ Len(y_prediction_seconds) # Len(y_true_seconds)
    /\ sc_pc' = "raised"
    /\ UNCHANGED << y_prediction_seconds, y_true_seconds, individual_scores,
                    final_score, fn_vars, lr_vars, sg_vars, ch_vars, dm_vars, sm_vars >>

\* Lines 13-15.
ScoreEnter ==
    /\ sc_pc = "call"
    /\ Len(y_prediction_seconds) = Len(y_true_seconds)
    /\ sc_pc' = "loop"
    /\ UNCHANGED << y_prediction_seconds, y_true_seconds, individual_scores,
                    final_score, fn_vars, lr_vars, sg_vars, ch_vars, dm_vars, sm_vars >>

\* Lines 16-22: one pair.
ScoreIter ==
    /\ sc_pc = "loop"
    /\ Len(individual_scores) < Len(y_true_seconds)
    /\ individual_scores' =
          Append(individual_scores,
                 Score(y_prediction_seconds[Len(individual_scores) + 1],
                       y_true_seconds[Len(individual_scores) + 1]))
    /\ UNCHANGED << sc_pc, y_prediction_seconds, y_true_seconds, final_score,
                    fn_vars, lr_vars, sg_vars, ch_vars, dm_vars, sm_vars >>

\* Lines 23-25.
ScoreReturn ==
    /\ sc_pc = "loop"
    /\ Len(individual_scores) = Len(y_true_seconds)
    /\ final_score' = sum(individual_scores)
    /\ sc_pc' = "returned"
    /\ UNCHANGED << y_prediction_seconds, y_true_seconds, individual_scores,
                    fn_vars, lr_vars, sg_vars, ch_vars, dm_vars, sm_vars >>

ScoreNext ==
    \/ ScoreRaise
    \/ ScoreEnter
    \/ ScoreIter
    \/ ScoreReturn

SpecScore ==
    ScoreInit /\ [][ScoreNext]_vars

\* ---------------------------------------------------------------------
\* RunwayFAP.dms_to_decimal (src/FAP_positions.py).  A string is the
\* sequence of its characters and a coordinate in degrees is a quotient of
\* integers.
\* ---------------------------------------------------------------------
\* The arguments of RunwayFAP(...) in the dictionary FAP_position, lines
\* 31-34: the latitude and the longitude string of each runway.
FAP_dms ==
    [r \in {"18R", "18L", "32L", "32R"} |->
        CASE r = "18R" -> [latitude_dms |-> << "4", "0", "4", "6", "1", "9", "N" >>,
                           longitude_dms |-> << "0", "0", "3", "3", "4", "3", "4", "W" >>]
          [] r = "18L" -> [latitude_dms |-> << "4", "0", "4", "2", "2", "6", "N" >>,
                           longitude_dms |-> << "0", "0", "3", "3", "3", "3", "7", "W" >>]
          [] r = "32L" -> [latitude_dms |-> << "4", "0", "2", "2", "5", "2", "N" >>,
                           longitude_dms |-> << "0", "0", "3", "2", "8", "1", "5", "W" >>]
          [] r = "32R" -> [latitude_dms |-> << "4", "0", "2", "1", "0", "0", "N" >>,
                           longitude_dms |-> << "0", "0", "3", "2", "4", "4", "0", "W" >>]]

\* Digits and hemisphere letters of the generated strings.
DmsDigits ==
    {"0", "3", "4"}

Hemispheres ==
    {"N", "S", "E", "W"}

\* The least number of digits of a generated string: one fewer than a
\* latitude has.
MinDmsDigits ==
    5

\* int() of a one-character string.
DigitValue(c) ==
    CASE c = "0" -> 0 [] c = "1" -> 1 [] c = "2" -> 2 [] c = "3" -> 3
      [] c = "4" -> 4 [] c = "5" -> 5 [] c = "6" -> 6 [] c = "7" -> 7
      [] c = "8" -> 8 [] c = "9" -> 9

\* int() of a non-empty string of digits.
RECURSIVE int(_)
int(chars) ==
    IF Len(chars) = 1 THEN DigitValue(chars[1])
    ELSE 10 * int(SubSeq(chars, 1, Len(chars) - 1)) + DigitValue(chars[Len(chars)])

\* The slice chars[a:b] of Python (positions from 0, b excluded).
Slice(chars, a, b) ==
    SubSeq(chars, a + 1, IF b < Len(chars) THEN b ELSE Len(chars))

\* Lines 11-18: the three parts of the numeric string.
DmsParts(dms) ==
    IF Len(dms) = 6
    THEN [deg |-> Slice(dms, 0, 2), min_ |-> Slice(dms, 2, 4), sec |-> Slice(dms, 4, Len(dms))]
    ELSE [deg |-> Slice(dms, 0, 3), min_ |-> Slice(dms, 3, 5), sec |-> Slice(dms, 5, Len(dms))]

\* int('') raises ValueError.
DmsRaises(dms_string) ==
    LET parts == DmsParts(Slice(dms_string, 0, Len(dms_string) - 1))
    IN  parts.deg = << >> \/ parts.min_ = << >> \/ parts.sec = << >>

\* Faulty variant of dms_to_decimal: three degree digits whatever the length.
dms_to_decimal_three_digits(dms_string) ==
    LET direction == dms_string[Len(dms_string)]
        dms == Slice(dms_string, 0, Len(dms_string) - 1)
        deg == int(Slice(dms, 0, 3))
        min_ == int(Slice(dms, 3, 5))
        sec == int(Slice(dms, 5, Len(dms)))
    IN  IF direction \in {"S", "W"}
        THEN Frac(-(3600 * deg + 60 * min_ + sec), 3600)
        ELSE Frac(3600 * deg + 60 * min_ + sec, 3600)

\* Lines 8-23: deg + min_ / 60 + sec / 3600, negated for S and W, as a
\* quotient with denominator 3600.
dms_to_decimal(dms_string) ==
    LET direction == dms_string[Len(dms_string)]
        parts == DmsParts(Slice(dms_string, 0, Len(dms_string) - 1))
        deg == int(parts.deg)
        min_ == int(parts.min_)
        sec == int(parts.sec)
    IN  IF direction \in {"S", "W"}
        THEN Frac(-(3600 * deg + 60 * min_ + sec), 3600)
        ELSE Frac(3600 * deg + 60 * min_ + sec, 3600)

\* The argument: a string of the dictionary, or digits and a hemisphere.
DmsInit ==
    /\ dm_pc = "call"
    /\ \/ \E r \in DOMAIN FAP_dms :
            dms_str \in {FAP_dms[r].latitude_dms, FAP_dms[r].longitude_dms}
       \/ \E n \in MinDmsDigits..MaxDmsDigits :
            \E digits \in [1..n -> DmsDigits] :
              \E h \in Hemispheres : dms_str = digits \o << h >>
    /\ decimal = PyNoValue
    /\ FnIdle
    /\ LrIdle
    /\ SgIdle
    /\ ChIdle
    /\ ScIdle
    /\ SmIdle

\* Lines 8-23.
DmsReturn ==
    /\ dm_pc = "call"
    /\ ~DmsRaises(dms_str)
    /\ decimal' = dms_to_decimal(dms_str)
    /\ dm_pc' = "returned"
    /\ UNCHANGED << dms_str, fn_vars, lr_vars, sg_vars, ch_vars, sc_vars, sm_vars >>

\* Line 18 with fewer than six digits: int('') raises ValueError.
DmsRaise ==
    /\ dm_pc = "call"
    /\ DmsRaises(dms_str)
    /\ dm_pc' = "raised"
    /\ UNCHANGED << dms_str, decimal, fn_vars, lr_vars, sg_vars, ch_vars, sc_vars, sm_vars >>

DmsNext ==
    \/ DmsReturn
    \/ DmsRaise

SpecDms ==
    DmsInit /\ [][DmsNext]_vars

\* ---------------------------------------------------------------------
\* tools_prob.py: sample_greater_than_mean and the get_time functions.
\* Seconds are written in microseconds, rounded to the nearest one.
\* ---------------------------------------------------------------------
\* Lines 16-30, 35-50 and 55-69: the mean and the standard deviation of
\* each function for the four runways it knows.
TimeParameters ==
    [get_time_nov |->
        [r32L |-> [mean |-> 128739250, std_dev |-> 7963354],
         r32R |-> [mean |-> 197456824, std_dev |-> 10448288],
         r18L |-> [mean |-> 230948096, std_dev |-> 14592161],
         r18R |-> [mean |-> 304629395, std_dev |-> 20615726]],
     get_time_nov_feb |->
        [r32L |-> [mean |-> 129099895, std_dev |-> 8271079],
         r32R |-> [mean |-> 198732084, std_dev |-> 11239612],
         r18L |-> [mean |-> 230663470, std_dev |-> 14345227],
         r18R |-> [mean |-> 302094149, std_dev |-> 18964048]],
     get_time_full |->
        [r32L |-> [mean |-> 130083061, std_dev |-> 19495829],
         r32R |-> [mean |-> 199940933, std_dev |-> 13984296],
         r18L |-> [mean |-> 222834000, std_dev |-> 15012914],
         r18R |-> [mean |-> 286350083, std_dev |-> 13354046]]]

GetTimeFunctions ==
    DOMAIN TimeParameters

\* The runway strings of the calls: the four known runways, the empty
\* string and a runway of another airport axis.
RunwayStrings ==
    {"32L", "32R", "18L", "18R", "", "14L"}

\* Lines 16-30: mean and std_dev stay 0.0 unless the runway is one of the
\* four of the if/elif chain.
Parameters(function, runway) ==
    IF runway = "32L" THEN TimeParameters[function].r32L
    ELSE IF runway = "32R" THEN TimeParameters[function].r32R
    ELSE IF runway = "18L" THEN TimeParameters[function].r18L
    ELSE IF runway = "18R" THEN TimeParameters[function].r18R
    ELSE [mean |-> 0, std_dev |-> 0]

\* Line 7, np.random.normal(loc, scale) with scale >= 0: with scale 0 the
\* value is loc; otherwise any value can be drawn, here the values a whole
\* number of standard deviations from loc, up to MaxSigma.
Normal(loc_, scale_) ==
    IF scale_ = 0 THEN {loc_}
    ELSE {loc_ + k * scale_ : k \in (0 - MaxSigma)..MaxSigma}

\* The arguments of the direct calls of sample_greater_than_mean.
SampleArguments ==
    [n_samples : 0..MaxSamples, dist_mean : {0, 1}, loc : {0, 1}, scale : {0, 1}]

\* A call of a get_time function with a runway string, or of
\* sample_greater_than_mean with its four arguments.
SampleInit ==
    /\ sm_pc = "call"
    /\ \/ \E f \in GetTimeFunctions : \E r \in RunwayStrings :
            sm_call = [function |-> f, runway |-> r]
       \/ \E a \in SampleArguments :
            sm_call = [function |-> "sample_greater_than_mean", arguments |-> a]
    /\ n_samples = 0
    /\ dist_mean = 0
    /\ loc = 0
    /\ scale = 0
    /\ samples = << >>
    /\ val = PyNoValue
    /\ sm_result = PyNoValue
    /\ FnIdle
    /\ LrIdle
    /\ SgIdle
    /\ ChIdle
    /\ ScIdle
    /\ DmIdle

\* Lines 16-32 (and 35-52, 55-71): the get_time function calls
\* sample_greater_than_mean(1, dist_mean=mean, loc=mean, scale=std_dev).
GetTimeCall ==
    /\ sm_pc = "call"
    /\ sm_call.function \in GetTimeFunctions
    /\ LET p == Parameters(sm_call.function, sm_call.runway)
       IN  /\ n_samples' = 1
           /\ dist_mean' = p.mean
           /\ loc' = p.mean
           /\ scale' = p.std_dev
    /\ samples' = << >>
    /\ sm_pc' = "loop"
    /\ UNCHANGED << sm_call, val, sm_result, fn_vars, lr_vars, sg_vars, ch_vars,
                    sc_vars, dm_vars >>

\* Lines 4-5: a direct call of sample_greater_than_mean.
SampleCall ==
    /\ sm_pc = "call"
    /\ sm_call.function = "sample_greater_than_mean"
    /\ n_samples' = sm_call.arguments.n_samples
    /\ dist_mean' = sm_call.arguments.dist_mean
    /\ loc' = sm_call.arguments.loc
    /\ scale' = sm_call.arguments.scale
    /\ samples' = << >>
    /\ sm_pc' = "loop"
    /\ UNCHANGED << sm_call, val, sm_result, fn_vars, lr_vars, sg_vars, ch_vars,
                    sc_vars, dm_vars >>

\* Lines 6-7: the list is still short and the value drawn is greater than
\* dist_mean.
SampleDrawAbove ==
    /\ sm_pc = "loop"
    /\ Len(samples) < n_samples
    /\ \E v \in Normal(loc, scale) :
         /\ v > dist_mean
         /\ val' = [float |-> v]
    /\ sm_pc' = "drawn"
    /\ UNCHANGED << sm_call, n_samples, dist_mean, loc, scale, samples, sm_result,
                    fn_vars, lr_vars, sg_vars, ch_vars, sc_vars, dm_vars >>

\* Lines 6-7: the list is still short and the value drawn is not greater
\* than dist_mean.
SampleDrawNotAbove ==
    /\ sm_pc = "loop"
    /\ Len(samples) < n_samples
    /\ \E v \in Normal(loc, scale) :
         /\ ~(v > dist_mean)
         /\ val' = [float |-> v]
    /\ sm_pc' = "drawn"
    /\ UNCHANGED << sm_call, n_samples, dist_mean, loc, scale, samples, sm_result,
                    fn_vars, lr_vars, sg_vars, ch_vars, sc_vars, dm_vars >>

\* Lines 8-9: the value is kept.
SampleAppend ==
    /\ sm_pc = "drawn"
    /\ val.float > dist_mean
    /\ samples' = Append(samples, val.float)
    /\ sm_pc' = "loop"
    /\ UNCHANGED << sm_call, n_samples, dist_mean, loc, scale, val, sm_result,
                    fn_vars, lr_vars, sg_vars, ch_vars, sc_vars, dm_vars >>

\* Line 8 false: the value is dropped and the loop goes on.
SampleSkip ==
    /\ sm_pc = "drawn"
    /\ ~(val.float > dist_mean)
    /\ sm_pc' = "loop"
    /\ UNCHANGED << sm_call, n_samples, dist_mean, loc, scale, samples, val,
                    sm_result, fn_vars, lr_vars, sg_vars, ch_vars, sc_vars, dm_vars >>

\* Lines 6, 11-13: the loop ends and the samples are returned; line 32: a
\* get_time function returns the first of them.
SampleReturn ==
    /\ sm_pc = "loop"
    /\ ~(Len(samples) < n_samples)
    /\ sm_result' = IF sm_call.function \in GetTimeFunctions
                    THEN [float |-> samples[1]]
                    ELSE [array |-> samples]
    /\ sm_pc' = "returned"
    /\ UNCHANGED << sm_call, n_samples, dist_mean, loc, scale, samples, val,
                    fn_vars, lr_vars, sg_vars, ch_vars, sc_vars, dm_vars >>

SampleNext ==
    \/ GetTimeCall
    \/ SampleCall
    \/ SampleDrawAbove
    \/ SampleDrawNotAbove
    \/ SampleAppend
    \/ SampleSkip
    \/ SampleReturn

SpecSample ==
    SampleInit /\ [][SampleNext]_vars

\* The call keeps running, and a loop that can draw a value above dist_mean
\* again and again does draw one: each draw is independent and exceeds
\* dist_mean with one fixed positive probability.  Every step of the call
\* changes sm_pc.
SpecSampleFair ==
    SpecSample /\ WF_sm_pc(SampleNext) /\ SF_sm_pc(SampleDrawAbove)

\* ---------------------------------------------------------------------
\* Properties of find_nearest_point (checked under SpecNearest).
\* ---------------------------------------------------------------------
\* The rows of the input that have both coordinates.
FnValidRows ==
    {i \in 1..Len(fn_filtered_df) : fn_filtered_df[i].pos # None}

\* The least distance from reference point k of the mapping to a valid row.
FnMinDistance(k) ==
    Min({haversine(fn_filtered_df[i].pos, fn_baseline[k].point) : i \in FnValidRows})

FnReturnedMatch ==
    fn_pc = "returned" /\ Len(fn_baseline) > 0 /\ FnValidRows # {}

\* C6: the result of find_nearest_point is the pair (reference point, report
\* with coordinates) of least haversine distance: no pair is strictly nearer,
\* the returned report is a row of the input that has coordinates, the
\* returned index and ts are that row's, and base_lat/base_lon are the
\* coordinates of the returned runway's reference point.
C6_NearestIsGlobalMinimum ==
    FnReturnedMatch =>
        /\ \A k \in 1..Len(fn_baseline) : \A i \in FnValidRows :
             fn_nearest.distance <= haversine(fn_filtered_df[i].pos, fn_baseline[k].point)
        /\ \E i \in FnValidRows :
             /\ fn_nearest.point = fn_filtered_df[i]
             /\ fn_nearest.index = fn_filtered_df[i].idx
             /\ fn_nearest.ts = fn_filtered_df[i].ts
        /\ \E k \in 1..Len(fn_baseline) :
             /\ fn_baseline[k].runway = fn_nearest.runway
             /\ fn_baseline[k].point = fn_nearest.base
        /\ fn_nearest.distance = haversine(fn_nearest.point.pos, fn_nearest.base)

\* C6 witness: a row without coordinates is skipped, and the match is the
\* third row against a reference point that is not the first of the mapping.
C6_Witness ==
    /\ FnReturnedMatch
    /\ Len(fn_baseline) >= 2
    /\ \E i \in 1..Len(fn_filtered_df) : fn_filtered_df[i].pos = None
    /\ fn_nearest.index = 2
    /\ fn_nearest.runway # fn_baseline[1].runway

\* C7: among the reference points at the minimum distance the first of the
\* mapping's iteration order is returned: every reference point before the
\* returned one is strictly farther from all reports.
C7_FirstMinimumWins ==
    FnReturnedMatch =>
        \A k \in 1..Len(fn_baseline) :
            fn_baseline[k].runway = fn_nearest.runway =>
                \A j \in 1..(k - 1) : FnMinDistance(j) > fn_nearest.distance

\* C7 witness: two reference points tie at the minimum and the first is returned.
C7_Witness ==
    /\ FnReturnedMatch
    /\ Len(fn_baseline) >= 2
    /\ fn_nearest.runway = fn_baseline[1].runway
    /\ FnMinDistance(2) = fn_nearest.distance

\* C8: on an empty report set (also once rows without coordinates are
\* excluded) find_nearest_point returns the "no match" sentinel, distance
\* +infinity and runway None, and does not raise.
C8_EmptyReturnsSentinel ==
    (FnValidRows = {} /\ fn_pc \notin {"call", "loop"}) =>
        (fn_pc = "returned" /\ fn_nearest = NoMatch)

\* ---------------------------------------------------------------------
\* Properties of identify_landing_runway (checked under Spec).
\* ---------------------------------------------------------------------
\* The (icao24, segment) groups of the argument.
InputKeys ==
    {<< df_in[i].icao24, df_in[i].segment >> : i \in 1..Len(df_in)}

\* The rows of a group of the argument, and those that have coordinates.
InputGroup(key) ==
    {i \in 1..Len(df_in) : df_in[i].icao24 = key[1] /\ df_in[i].segment = key[2]}

InputGroupValid(key) ==
    {i \in InputGroup(key) : df_in[i].pos # None}

GroupTrajectory(key) ==
    df_in[CHOOSE i \in InputGroup(key) : TRUE].trajectory

\* The least distance from a row of the group to a point of the registry.
GroupDistance(registry, key) ==
    Min({haversine(df_in[i].pos, registry[k].point) :
            i \in InputGroupValid(key), k \in 1..Len(registry)})

\* The runway labels of the registry's points at that least distance.
GroupRunways(registry, key) ==
    {registry[k].runway : k \in {j \in 1..Len(registry) :
        \E i \in InputGroupValid(key) :
            haversine(df_in[i].pos, registry[j].point) = GroupDistance(registry, key)}}

\* The group's matches agree on the runway and are both within 700 m.
GroupAccepted(key) ==
    /\ InputGroupValid(key) # {}
    /\ GroupRunways(FAP_position, key) = GroupRunways(threshold_position, key)
    /\ GroupDistance(FAP_position, key) <= 700
    /\ GroupDistance(threshold_position, key) <= 700

\* The group fails the runway check or a distance check.
GroupRejected(key) ==
    /\ InputGroupValid(key) # {}
    /\ ~GroupAccepted(key)

\* The loop has visited the group.
Visited(key) ==
    /\ pc \in {"loop", "returned", "raised"}
    /\ key \notin SeqRange(grouped)

\* The summary records of a group: those of its aircraft whose matched FAP
\* report is a row of the group.
SummaryOf(table, key) ==
    {j \in 1..Len(table) :
        /\ table[j].icao24 = key[1]
        /\ \E i \in InputGroup(key) : df_in[i].idx = table[j].idx_fap}

\* The rows of a report table (enriched or ILS) that belong to a group.
RowsOf(table, key) ==
    {j \in 1..Len(table) : table[j].icao24 = key[1] /\ table[j].segment = key[2]}

\* C1: every LandingMatch (summary row) comes from a segment whose nearest
\* FAP and nearest threshold carry the same runway label and are both at
\* most 700 m from their reference point.
C1_MatchesAgreeAndAreNear ==
    \A table \in {basic_info_results, basic_info_df} :
        \A j \in 1..Len(table) :
            \E key \in InputKeys :
                /\ j \in SummaryOf(table, key)
                /\ GroupRunways(FAP_position, key) = {table[j].runway_fap}
                /\ GroupRunways(threshold_position, key) = {table[j].runway_fap}
                /\ GroupDistance(FAP_position, key) <= 700
                /\ GroupDistance(threshold_position, key) <= 700

\* C1 witness: a run that returned a summary row and rejected another segment.
C1_Witness ==
    /\ pc = "returned"
    /\ Len(basic_info_df) = 1
    /\ printed # << >>

\* C2: every visited 'landing' group whose matches agree on the runway and
\* are within 700 m (700 m included) has exactly one LandingMatch, in the
\* list of summary records and in the returned summary table.
C2_OneMatchPerValidSegment ==
    \A key \in InputKeys :
        (Visited(key) /\ GroupTrajectory(key) = "landing" /\ GroupAccepted(key)) =>
            /\ Cardinality(SummaryOf(basic_info_results, key)) = 1
            /\ pc = "returned" => Cardinality(SummaryOf(basic_info_df, key)) = 1

\* C2 witness: a returned summary row whose FAP match is at exactly 700 m.
C2_Witness ==
    /\ pc = "returned"
    /\ \E j \in 1..Len(basic_info_df) :
         haversine(basic_info_df[j].pos_fap, "FAP_32L") = 700

\* The rows of the argument that are not in a rejected landing group.
WithoutRejected ==
    SelectSeq(df_in, LAMBDA row :
        ~(row.trajectory = "landing" /\ GroupRejected(<< row.icao24, row.segment >>)))

\* The match of a group with a registry.
MatchOf(registry, group_df) ==
    find_nearest_point(registry, group_df)

\* The accepted groups of a dataframe, in group order.
AcceptedKeys(d) ==
    SelectSeq(GroupKeys(FilterTrajectories(d)),
              LAMBDA key : Verdict(GroupRows(FilterTrajectories(d), key)) = "accept")

\* The enriched rows expected of a dataframe: those of its accepted groups.
ExpectedResults(d) ==
    LET keys == AcceptedKeys(d)
    IN  [n \in 1..Len(keys) |->
            LET group_df == GroupRows(d, keys[n])
            IN  Augment(group_df, MatchOf(FAP_position, group_df),
                        MatchOf(threshold_position, group_df))]

\* The summary records expected of a dataframe.
ExpectedBasicInfo(d) ==
    LET keys == AcceptedKeys(d)
    IN  [n \in 1..Len(keys) |->
            LET group_df == GroupRows(d, keys[n])
                group_df_sorted == CHOOSE g \in SortedByTs(group_df) : TRUE
            IN  BasicInfo(keys[n][1], MatchOf(FAP_position, group_df),
                          MatchOf(threshold_position, group_df),
                          Kinematics(group_df_sorted, group_df,
                                     MatchOf(FAP_position, group_df)))]

\* C3: a segment rejected for runway mismatch or distance contributes no row
\* to the enriched table, the summary table or the ILS table, and the other
\* segments are attributed as if the rejected segments were absent: the
\* enriched rows and summary records are those expected of the argument
\* without the rejected segments.
C3_RejectedSegmentDropped ==
    /\ LET rejected == {key \in InputKeys : GroupRejected(key)}
       IN  /\ \A table \in {concat(results), concat(segments_ils_results),
                            df_with_runway, df_segments_ils} :
                \A j \in 1..Len(table) :
                   << table[j].icao24, table[j].segment >> \notin rejected
           /\ \A table \in {basic_info_results, basic_info_df} :
                \A j \in 1..Len(table) :
                   \A key \in rejected : j \notin SummaryOf(table, key)
    /\ pc = "returned" =>
            /\ df_with_runway = reset_index(concat(ExpectedResults(WithoutRejected)))
            /\ basic_info_df = DataFrame(ExpectedBasicInfo(WithoutRejected))

\* C3 witness: a run that returned the rows of an accepted segment after it
\* rejected an earlier segment.
C3_Witness ==
    /\ pc = "returned"
    /\ Len(df_with_runway) >= 2
    /\ Len(printed) = 1
    /\ KeyLess(<< printed[1].icao24, 0 >>, << df_with_runway[1].icao24, 0 >>)

\* C4: identify_landing_runway returns normally for every input that has
\* the required columns: it never raises, also when every landing segment
\* is rejected or when there is no landing segment.
C4_NeverRaises ==
    pc # "raised"

\* C5: no report of a 'departing' or 'level' segment appears in the enriched
\* table, the summary table or the ILS table.
C5_OnlyLandingSegments ==
    /\ \A table \in {concat(results), concat(segments_ils_results),
                     df_with_runway, df_segments_ils} :
         \A j \in 1..Len(table) :
            /\ table[j].trajectory = "landing"
            /\ GroupTrajectory(<< table[j].icao24, table[j].segment >>) = "landing"
    /\ \A table \in {basic_info_results, basic_info_df} :
         \A j \in 1..Len(table) :
            \A key \in InputKeys :
                j \in SummaryOf(table, key) => GroupTrajectory(key) = "landing"

\* C5 witness: a run returned the rows of a landing segment while the
\* argument held a 'level' segment within 700 m of a FAP and of the same
\* runway's threshold.
C5_Witness ==
    /\ pc = "returned"
    /\ \E key \in InputKeys :
         /\ GroupTrajectory(key) = "level"
         /\ GroupAccepted(key)

\* ---------------------------------------------------------------------
\* Properties of identify_segments (checked under SpecSeg).
\* ---------------------------------------------------------------------
\* The rows of one aircraft, and of one of its segments, in the annotated
\* output, in output order.
AnnotatedRows(icao) ==
    SelectSeq(annotated_df, LAMBDA row : row.icao24 = icao)

AnnotatedSegment(icao, sg) ==
    SelectSeq(annotated_df, LAMBDA row : row.icao24 = icao /\ row.segment = sg)

AnnotatedKeys ==
    {<< annotated_df[i].icao24, annotated_df[i].segment >> : i \in 1..Len(annotated_df)}

\* C9: per aircraft the reports are in timestamp order, the first has
\* segment ordinal 0, and the ordinal of the next report is the same when
\* the gap is at most 3600 s and one more when the gap is greater.
C9_SegmentOrdinalCountsGaps ==
    sg_pc = "returned" =>
        \A icao \in SeqRange(Aircraft) :
            LET R == AnnotatedRows(icao)
            IN  /\ Len(R) = Len(IcaoRows(sg_df, icao))
                /\ Len(R) > 0 => R[1].segment = 0
                /\ \A i \in 1..(Len(R) - 1) :
                     /\ R[i].ts <= R[i + 1].ts
                     /\ R[i + 1].ts - R[i].ts <= 3600 * 1000
                            => R[i + 1].segment = R[i].segment
                     /\ R[i + 1].ts - R[i].ts > 3600 * 1000
                            => R[i + 1].segment = R[i].segment + 1

\* C9 witness: reports supplied out of order; a gap of exactly 3600 s stays
\* in segment 0 and a gap of 3600.5 s starts segment 1.
C9_Witness ==
    /\ sg_pc = "returned"
    /\ Len(sg_df) = 3
    /\ sg_df[1].ts = 7200500
    /\ \E icao \in SeqRange(Aircraft) :
         LET R == AnnotatedRows(icao)
         IN  /\ Len(R) = 3
             /\ << R[1].ts, R[2].ts, R[3].ts >> = << 0, 3600000, 7200500 >>
             /\ << R[1].segment, R[2].segment, R[3].segment >> = << 0, 0, 1 >>

\* The class of the sign of (last - first); a null operand gives 'level'.
SignClass(first, last) ==
    IF first = NaN \/ last = NaN THEN "level"
    ELSE IF last > first THEN "departing"
    ELSE IF last < first THEN "landing"
    ELSE "level"

\* C10 as stated: every report of a segment carries the class of the sign of
\* (altitude of the segment's last report - altitude of its first report).
C10_ClassOfEndpointAltitudes ==
    sg_pc = "returned" =>
        \A key \in AnnotatedKeys :
            LET R == AnnotatedSegment(key[1], key[2])
            IN  \A i \in 1..Len(R) :
                    R[i].trajectory = SignClass(R[1].altitude, R[Len(R)].altitude)

\* C10 amended: every report of a segment carries the class of the sign of
\* (altitude of the segment's last report that has an altitude - altitude of
\* its first report that has an altitude), 'level' when no report of the
\* segment has an altitude; the segment summary carries the same class.
C10_ClassOfKnownAltitudes ==
    sg_pc = "returned" =>
        \A key \in AnnotatedKeys :
            LET R == AnnotatedSegment(key[1], key[2])
                known == {i \in 1..Len(R) : R[i].altitude # NaN}
                class == IF known = {} THEN "level"
                         ELSE SignClass(R[Min(known)].altitude, R[Max(known)].altitude)
            IN  /\ \A i \in 1..Len(R) : R[i].trajectory = class
                /\ \E j \in 1..Len(segment_summary) :
                     /\ segment_summary[j].icao24 = key[1]
                     /\ segment_summary[j].segment = key[2]
                     /\ segment_summary[j].trajectory = class

\* C10 witness: a segment whose first report has no altitude and whose later
\* reports descend is classified 'landing'.
C10_Witness ==
    /\ sg_pc = "returned"
    /\ \E key \in AnnotatedKeys :
         LET R == AnnotatedSegment(key[1], key[2])
         IN  /\ Len(R) = 3
             /\ R[1].altitude = NaN
             /\ R[2].altitude > R[3].altitude
             /\ R[3].altitude # NaN
             /\ R[1].trajectory = "landing"

\* C11 as stated: every segment of exactly one report is classified 'level'
\* and its report has time_gap = 0, whatever the segment's ordinal.
C11_SingleReportLevelGapZero ==
    sg_pc = "returned" =>
        \A key \in AnnotatedKeys :
            LET R == AnnotatedSegment(key[1], key[2])
            IN  Len(R) = 1 => (R[1].trajectory = "level" /\ R[1].time_gap = Seconds(0))

\* C11 amended: every segment of exactly one report is classified 'level'
\* (in the annotated rows and in the summary); its report has time_gap = 0
\* when the segment is the aircraft's first, and otherwise time_gap is the
\* gap in seconds to the aircraft's preceding report, which is above 3600.
C11_SingleReportLevelGapToPrevious ==
    sg_pc = "returned" =>
        \A icao \in SeqRange(Aircraft) :
            LET A == AnnotatedRows(icao)
            IN  \A i \in 1..Len(A) :
                    Len(AnnotatedSegment(icao, A[i].segment)) = 1 =>
                        /\ A[i].trajectory = "level"
                        /\ \A j \in 1..Len(segment_summary) :
                             (segment_summary[j].icao24 = icao /\
                              segment_summary[j].segment = A[i].segment)
                                 => segment_summary[j].trajectory = "level"
                        /\ A[i].segment = 0 => (i = 1 /\ A[i].time_gap = Seconds(0))
                        /\ A[i].segment > 0 =>
                             /\ i > 1
                             /\ A[i].time_gap = Seconds(A[i].ts - A[i - 1].ts)
                             /\ Greater(A[i].time_gap, 3600)

\* C11 witness: an aircraft with two single-report segments, the second one
\* with a known altitude and a gap of 3600.5 s.
C11_Witness ==
    /\ sg_pc = "returned"
    /\ \E icao \in SeqRange(Aircraft) :
         LET A == AnnotatedRows(icao)
         IN  /\ Len(A) = 2
             /\ << A[1].segment, A[2].segment >> = << 0, 1 >>
             /\ A[1].altitude = 2000
             /\ A[2].altitude = 1000
             /\ A[2].time_gap = Frac(7201, 2)

\* The order of an aircraft's reports that is fixed by the reports alone:
\* ascending in ts and, for equal ts, in altitude.
CanonicalOrder(group) ==
    LET n == Len(group)
        q == CHOOSE f \in [1..n -> 1..n] :
                 /\ \A i, j \in 1..n : f[i] = f[j] => i = j
                 /\ \A i \in 1..(n - 1) :
                      \/ group[f[i]].ts < group[f[i + 1]].ts
                      \/ /\ group[f[i]].ts = group[f[i + 1]].ts
                         /\ group[f[i]].altitude <= group[f[i + 1]].altitude
    IN  [i \in 1..n |-> group[q[i]]]

\* What a table of annotated rows assigns to each report (ts, altitude).
OrdinalOf(rows) ==
    {<< rows[i].ts, rows[i].altitude, rows[i].segment >> : i \in 1..Len(rows)}

ClassOf(rows) ==
    {<< rows[i].ts, rows[i].altitude, rows[i].trajectory >> : i \in 1..Len(rows)}

\* No two reports of the aircraft carry the same ts with different altitudes.
NoConflictingDuplicates(icao) ==
    LET G == IcaoRows(sg_df, icao)
    IN  \A i, j \in 1..Len(G) : G[i].ts = G[j].ts => G[i].altitude = G[j].altitude

\* C12 as stated: the segment ordinal and the class of each report are
\* those fixed by the set of the aircraft's reports, whatever the order
\* supplied, also with reports of equal ts and different altitudes.
C12_OrderIndependent ==
    sg_pc = "returned" =>
        \A icao \in SeqRange(IcaoKeys(sg_df)) :
            LET expected == Annotate(icao, CanonicalOrder(IcaoRows(sg_df, icao)))
            IN  /\ OrdinalOf(AnnotatedRows(icao)) = OrdinalOf(expected)
                /\ ClassOf(AnnotatedRows(icao)) = ClassOf(expected)

\* C12 amended: the segment ordinal of each report is fixed by the set of
\* the aircraft's reports, whatever the order supplied; so is the class
\* when no two reports of the aircraft carry the same ts with different
\* altitudes.
C12_OrderIndependentWithoutConflicts ==
    sg_pc = "returned" =>
        \A icao \in SeqRange(IcaoKeys(sg_df)) :
            LET expected == Annotate(icao, CanonicalOrder(IcaoRows(sg_df, icao)))
            IN  /\ OrdinalOf(AnnotatedRows(icao)) = OrdinalOf(expected)
                /\ NoConflictingDuplicates(icao) =>
                       ClassOf(AnnotatedRows(icao)) = ClassOf(expected)

\* C12 witness: three reports of one aircraft supplied latest first, two of
\* them with the same ts and altitude, split into two segments.
C12_Witness ==
    /\ sg_pc = "returned"
    /\ Len(sg_df) = 3
    /\ sg_df[1].icao24 = sg_df[2].icao24 /\ sg_df[2].icao24 = sg_df[3].icao24
    /\ sg_df[1].ts > sg_df[2].ts
    /\ sg_df[2].ts = sg_df[3].ts
    /\ sg_df[2].altitude = sg_df[3].altitude
    /\ sg_df[2].altitude # NaN
    /\ \E i \in 1..Len(annotated_df) : annotated_df[i].segment = 1

\* ---------------------------------------------------------------------
\* Properties of the timing, kinematics and ILS sub-segment of
\* identify_landing_runway (checked under SpecApproach, C14 under Spec).
\* ---------------------------------------------------------------------
\* The reference point of a runway in a registry.
PointOf(registry, runway) ==
    registry[CHOOSE k \in 1..Len(registry) : registry[k].runway = runway].point

\* The distance between the FAP and the threshold of a runway.
TrueDistance(runway) ==
    haversine(PointOf(FAP_position, runway), PointOf(threshold_position, runway))

\* The summary records, of the list and of the returned table.
SummaryRecords ==
    {basic_info_results[j] : j \in 1..Len(basic_info_results)} \cup
    {basic_info_df[j] : j \in 1..Len(basic_info_df)}

\* The enriched rows, of the lists and of the returned tables.
EnrichedRows ==
    LET tables == {concat(results), concat(segments_ils_results),
                   df_with_runway, df_segments_ils}
    IN  UNION {{table[j] : j \in 1..Len(table)} : table \in tables}

\* The rows of the argument that a summary record names as its matches.
FapReportOf(rec) ==
    df_in[CHOOSE i \in 1..Len(df_in) : df_in[i].idx = rec.idx_fap]

ThrReportOf(rec) ==
    df_in[CHOOSE i \in 1..Len(df_in) : df_in[i].idx = rec.idx_thr]

\* C13: for every LandingMatch with a non-zero raw distance,
\* delta_time_fap_to_thr = delta_time * (true_distance / distance) and
\* distance_fap_to_thr = true_distance, the distance between the FAP and the
\* threshold of the matched runway; distance and delta_time are the raw
\* distance and elapsed time between the two matched reports; the enriched
\* rows carry the same corrected values.
C13_CorrectedTimeIsScaled ==
    /\ \A rec \in SummaryRecords :
         /\ rec.distance = haversine(FapReportOf(rec).pos, ThrReportOf(rec).pos)
         /\ rec.delta_time.num * 1000
                = rec.delta_time.den * (ThrReportOf(rec).ts - FapReportOf(rec).ts)
         /\ rec.distance_fap_to_thr = TrueDistance(rec.runway_fap)
         /\ rec.distance # 0 =>
                rec.delta_time_fap_to_thr =
                    Frac(rec.delta_time.num * TrueDistance(rec.runway_fap),
                         rec.delta_time.den * rec.distance)
    /\ \A row \in EnrichedRows :
         /\ row.distance_fap_to_thr = TrueDistance(row.runway_fap)
         /\ \E rec \in SummaryRecords :
              /\ rec.idx_fap = row.idx_fap
              /\ rec.delta_time_fap_to_thr = row.delta_time_fap_to_thr

\* C13 witness: a returned LandingMatch whose raw distance (9785 m) differs
\* from the true distance (10584 m) and whose raw elapsed time is 150 s.
C13_Witness ==
    /\ pc = "returned"
    /\ \E j \in 1..Len(basic_info_df) :
         /\ basic_info_df[j].distance = 9785
         /\ basic_info_df[j].distance_fap_to_thr = 10584
         /\ basic_info_df[j].delta_time = Frac(150, 1)
         /\ basic_info_df[j].delta_time_fap_to_thr = Frac(150 * 10584, 9785)

\* The two matches of a group of the argument have raw distance zero.
ZeroRawDistance(key) ==
    LET group_df == GroupRows(df_in, key)
        fap == MatchOf(FAP_position, group_df)
        thr == MatchOf(threshold_position, group_df)
    IN  /\ InputGroupValid(key) # {}
        /\ haversine(fap.point.pos, thr.point.pos) = 0

\* C14 as stated: a 'landing' segment whose matched FAP report and matched
\* threshold report are at raw distance zero does not make the run raise,
\* and its LandingMatch is emitted with delta_time_fap_to_thr = delta_time.
C14_ZeroDistanceStillEmitted ==
    \A key \in InputKeys :
        (Visited(key) /\ GroupTrajectory(key) = "landing" /\ ZeroRawDistance(key)) =>
            /\ pc # "raised"
            /\ \E j \in SummaryOf(basic_info_results, key) :
                 basic_info_results[j].delta_time_fap_to_thr =
                     basic_info_results[j].delta_time

\* C14 amended: a 'landing' segment whose matched reports are at raw
\* distance zero is rejected by the runway or distance checks: one
\* diagnostic line is printed for it and it has no LandingMatch and no
\* enriched row; every LandingMatch has a non-zero raw distance and the
\* scaling factor true_distance / distance.
C14_ZeroDistanceNeverAccepted ==
    /\ \A key \in InputKeys :
         (Visited(key) /\ GroupTrajectory(key) = "landing" /\ ZeroRawDistance(key)) =>
            /\ SummaryOf(basic_info_results, key) = {}
            /\ RowsOf(concat(results), key) = {}
            /\ \E j \in 1..Len(printed) :
                 /\ printed[j].icao24 = key[1]
                 /\ printed[j].ts = GroupRows(df_in, key)[1].ts
    /\ \A rec \in SummaryRecords :
         /\ rec.distance > 0
         /\ rec.delta_time_fap_to_thr =
                Frac(rec.delta_time.num * rec.distance_fap_to_thr,
                     rec.delta_time.den * rec.distance)

\* C14 witness: a run that returned a LandingMatch and rejected a segment
\* of one report, which is nearest to the FAPs and to the thresholds.
C14_Witness ==
    /\ pc = "returned"
    /\ Len(basic_info_df) = 1
    /\ \E key \in InputKeys :
         /\ GroupTrajectory(key) = "landing"
         /\ Cardinality(InputGroup(key)) = 1
         /\ ZeroRawDistance(key)
         /\ \E j \in 1..Len(printed) : printed[j].icao24 = key[1]

\* The reports of the segment of a summary record, those before its FAP
\* report in time, and those other reports at the time of the FAP report.
SegmentOfRecord(rec) ==
    {i \in 1..Len(df_in) : /\ df_in[i].icao24 = rec.icao24
                            /\ df_in[i].segment = FapReportOf(rec).segment}

EarlierThanFap(rec) ==
    {i \in SegmentOfRecord(rec) : df_in[i].ts < rec.ts_fap}

SimultaneousWithFap(rec) ==
    {i \in SegmentOfRecord(rec) : df_in[i].ts = rec.ts_fap /\ df_in[i].idx # rec.idx_fap}

\* The three values computed from a previous report i and the FAP report.
KinematicsFrom(rec, i) ==
    LET fap == FapReportOf(rec)
        ms == fap.ts - df_in[i].ts
    IN  /\ rec.speed_fap =
               IF df_in[i].pos = None THEN FloatNaN
               ELSE Frac(haversine(df_in[i].pos, fap.pos) * 1000, ms)
        /\ rec.vertical_speed_fap = Frac((fap.altitude - df_in[i].altitude) * 1000, ms)
        /\ rec.heading_fap =
               IF df_in[i].pos = None THEN FloatNaN
               ELSE Frac(BearingTable[df_in[i].pos][fap.pos], 1000)

\* C15: in every LandingMatch the three kinematic fields are None together
\* or computed together; they are None when no report of the segment is
\* earlier than the FAP report, and when the report before it in the sorted
\* order has the same timestamp; otherwise they are computed from the FAP
\* report and a latest earlier report.  The match is emitted in both cases.
C15_KinematicsFromPrecedingReport ==
    \A j \in 1..Len(basic_info_results) :
        LET rec == basic_info_results[j]
            undefined == rec.speed_fap = PyNone
        IN  /\ undefined <=> rec.vertical_speed_fap = PyNone
            /\ undefined <=> rec.heading_fap = PyNone
            /\ EarlierThanFap(rec) = {} => undefined
            /\ (EarlierThanFap(rec) # {} /\ SimultaneousWithFap(rec) = {}) => ~undefined
            /\ undefined => (EarlierThanFap(rec) = {} \/ SimultaneousWithFap(rec) # {})
            /\ ~undefined =>
                   \E i \in EarlierThanFap(rec) :
                       /\ \A k \in EarlierThanFap(rec) : df_in[k].ts <= df_in[i].ts
                       /\ KinematicsFrom(rec, i)
            /\ rec.runway_fap \in {FAP_position[k].runway : k \in 1..Len(FAP_position)}
            /\ rec.delta_time.num * 1000 = rec.delta_time.den * (rec.ts_thr - rec.ts_fap)

\* C15 witness: a LandingMatch without kinematics whose FAP report is the
\* second row of the segment and its earliest report.
C15_Witness ==
    /\ pc = "returned"
    /\ \E j \in 1..Len(basic_info_df) :
         /\ basic_info_results[j].speed_fap = PyNone
         /\ basic_info_results[j].idx_fap = 1
         /\ EarlierThanFap(basic_info_results[j]) = {}
         /\ SimultaneousWithFap(basic_info_results[j]) = {}
         /\ basic_info_results[j].distance # 0

\* The position (from 1) in its group of the row of the argument with a label.
PositionInGroup(key, label) ==
    LET G == GroupRows(df_in, key)
    IN  CHOOSE i \in 1..Len(G) : G[i].idx = label

\* C16: the ILS sub-segment of the k-th accepted segment is the contiguous
\* run of the segment's rows from the lower to the higher of the positions
\* of the matched FAP report and the matched threshold report, both
\* included: it holds both matched reports and |pos_fap - pos_thr| + 1 rows.
C16_IlsIsInclusiveRun ==
    /\ Len(segments_ils_results) = Len(basic_info_results)
    /\ \A k \in 1..Len(segments_ils_results) :
         LET ils == segments_ils_results[k]
             rec == basic_info_results[k]
             key == << rec.icao24, FapReportOf(rec).segment >>
             G == GroupRows(df_in, key)
             pos_fap == PositionInGroup(key, rec.idx_fap)
             pos_thr == PositionInGroup(key, rec.idx_thr)
             lo == IF pos_fap < pos_thr THEN pos_fap ELSE pos_thr
             hi == IF pos_fap < pos_thr THEN pos_thr ELSE pos_fap
         IN  /\ Len(ils) = hi - lo + 1
             /\ \A i \in 1..Len(ils) :
                  /\ ils[i].idx = G[lo + i - 1].idx
                  /\ ils[i].ts = G[lo + i - 1].ts
                  /\ ils[i].pos = G[lo + i - 1].pos
             /\ \E i \in 1..Len(ils) : ils[i].idx = rec.idx_fap
             /\ \E i \in 1..Len(ils) : ils[i].idx = rec.idx_thr
    /\ pc = "returned" =>
         /\ Len(df_segments_ils) = Len(concat(segments_ils_results))
         /\ \A i \in 1..Len(df_segments_ils) :
              /\ df_segments_ils[i].ts = concat(segments_ils_results)[i].ts
              /\ df_segments_ils[i].pos = concat(segments_ils_results)[i].pos

\* C16 witness: the threshold report is the first row, the FAP report the
\* third, and the report between them is in the ILS sub-segment.
C16_Witness ==
    /\ pc = "returned"
    /\ Len(basic_info_df) = 1
    /\ basic_info_df[1].idx_thr = 0
    /\ basic_info_df[1].idx_fap = 2
    /\ Len(df_segments_ils) = 3

\* The sign of an integer and of a quotient.
Sign(x) ==
    IF x > 0 THEN 1 ELSE IF x < 0 THEN -1 ELSE 0

FracSign(f) ==
    Sign(f.num) * Sign(f.den)

\* C17: in every LandingMatch delta_time_fap_to_thr has the sign of
\* (ts_thr - ts_fap), and the scaling factor is strictly positive.
C17_CorrectedTimeKeepsSign ==
    \A rec \in SummaryRecords :
        /\ FracSign(rec.delta_time_fap_to_thr) = Sign(rec.ts_thr - rec.ts_fap)
        /\ rec.distance_fap_to_thr > 0
        /\ rec.distance > 0

\* C17 witness: a LandingMatch whose threshold report is earlier than its
\* FAP report, with a negative corrected time.
C17_Witness ==
    /\ pc = "returned"
    /\ \E j \in 1..Len(basic_info_df) :
         /\ basic_info_df[j].ts_thr < basic_info_df[j].ts_fap
         /\ FracSign(basic_info_df[j].delta_time_fap_to_thr) = -1

\* ---------------------------------------------------------------------
\* The backward-looking variant.
\* The groups that identify_landing_runway_backwards iterates over.
BackwardsKeys ==
    SeqRange(GroupKeys(FilterTrajectories(df_in)))

\* The positions, in the group, of the reports whose bearing toward the
\* matched threshold is within the offset of the runway heading.
ReportsInRange(key) ==
    LET group_df == GroupRows(df_in, key)
        nearest_thr == MatchOf(threshold_position, group_df)
    IN  {i \in 1..Len(group_df) : WithinRange(group_df[i], nearest_thr)}

\* The group was skipped with 'heading do not match'.
HeadingRejected(key) ==
    \E j \in 1..Len(printed) :
        printed[j].icao24 = key[1] /\ printed[j].reason = "heading do not match"

\* C18: in the backward-looking variant a segment is rejected with 'heading
\* do not match' only when no report of it has a bearing toward the matched
\* threshold within 10 degrees of the runway heading; when some report has,
\* the FAP-side match is the last such report.
C18_LastReportInRange ==
    \A key \in BackwardsKeys :
        (Visited(key) /\ InputGroupValid(key) # {}) =>
            /\ HeadingRejected(key) <=> (ReportsInRange(key) = {})
            /\ \A j \in 1..Len(basic_info_results) :
                  basic_info_results[j].icao24 = key[1] =>
                     basic_info_results[j].idx_fap
                        = GroupRows(df_in, key)[Max(ReportsInRange(key))].idx

\* The fields of a summary record of identify_landing_runway.
PrimarySummaryFields ==
    LET group_df == << TaggedRow(1, Keys[1], "landing", "P_FAP32L_700m") >>
        nearest_fap == find_nearest_point(FAP_position, group_df)
        nearest_thr == find_nearest_point(threshold_position, group_df)
    IN  DOMAIN BasicInfo(Keys[1][1], nearest_fap, nearest_thr,
                         Kinematics(group_df, group_df, nearest_fap))

\* C19: every summary record of identify_landing_runway_backwards carries
\* the fields of a summary record of identify_landing_runway, among them
\* distance, delta_time_fap_to_thr, speed_fap, vertical_speed_fap and
\* heading_fap, which the consumers of the summary table read.
C19_SameOutputShape ==
    \A j \in 1..Len(basic_info_results) :
        /\ DOMAIN basic_info_results[j] = PrimarySummaryFields
        /\ {"distance", "delta_time_fap_to_thr", "speed_fap",
            "vertical_speed_fap", "heading_fap"} \subseteq DOMAIN basic_info_results[j]

\* ---------------------------------------------------------------------
\* The pipeline between identify_segments and identify_landing_runway.
\* The (icao24, segment) keys of a table of annotated reports.
SegmentKeys(d) ==
    {<< d[i].icao24, d[i].segment >> : i \in 1..Len(d)}

\* The report lies within the geographic bounds and the altitude range of
\* the pipeline.
InsidePipelineBounds(row) ==
    /\ LatLon[row.pos].lat_deg \in 40300000..40800000
    /\ LatLon[row.pos].lon_deg \in -3800000..-3300000
    /\ row.altitude \in -1000..10000

\* Two consecutive reports of a segment in the table are more than the gap
\* threshold apart.
GapInsideSegment(d) ==
    \E j \in 1..(Len(d) - 1) :
        /\ d[j].icao24 = d[j + 1].icao24
        /\ d[j].segment = d[j + 1].segment
        /\ d[j + 1].ts - d[j].ts > time_gap_threshold * 1000

\* C20 as stated: the reports of each (aircraft, segment) that
\* identify_landing_runway receives are the reports identify_segments put in
\* that segment, and consecutive reports of a received segment differ by at
\* most the gap threshold.
C20_SegmentNotMutated ==
    pc = "call" =>
        /\ \A key \in SegmentKeys(annotated_df) :
              GroupRows(df_in, key) = GroupRows(annotated_df, key)
        /\ ~GapInsideSegment(df_in)

\* C20: the reports of each (aircraft, segment) that identify_landing_runway
\* receives are the reports identify_segments put in that segment that lie
\* within latitude 40.3..40.8, longitude -3.8..-3.3 and altitude
\* -1000..10000 ft, unchanged (same label, ordinal and class) and in the
\* same order.
C20_SegmentOnlyFiltered ==
    pc = "call" =>
        /\ \A i \in 1..Len(annotated_df) :
              (\E j \in 1..Len(df_in) : df_in[j] = annotated_df[i])
                 <=> InsidePipelineBounds(annotated_df[i])
        /\ \A j \in 1..Len(df_in) :
              \E i \in 1..Len(annotated_df) : df_in[j] = annotated_df[i]
        /\ \A j, k \in 1..Len(df_in) : j < k => df_in[j].idx < df_in[k].idx

\* A segment reaches identify_landing_runway without one of its reports, and
\* the reports around the removed one are more than the threshold apart.
C20_Witness ==
    /\ pc = "call"
    /\ Len(df_in) < Len(annotated_df)
    /\ GapInsideSegment(df_in)
    /\ ~GapInsideSegment(annotated_df)

\* ---------------------------------------------------------------------
\* Independence across aircraft.
\* The rows of one aircraft, with their labels.
AircraftRows(d, icao24) ==
    SelectSeq(d, LAMBDA row : row.icao24 = icao24)

\* The summary records that the call hands back for one aircraft: those
\* collected for it when the call returns, none when it raises.
ReturnedMatches(icao24) ==
    IF pc = "returned"
    THEN SelectSeq(basic_info_results, LAMBDA rec : rec.icao24 = icao24)
    ELSE << >>

\* C21: the LandingMatch records obtained for one aircraft are those obtained
\* when the aircraft's reports are processed alone, whatever other aircraft
\* are in the dataframe, and a group never holds reports of two aircraft,
\* also when they have the same segment ordinal.
C21_AircraftIndependent ==
    /\ \A n \in 1..Len(results) :
          \A i, j \in 1..Len(results[n]) : results[n][i].icao24 = results[n][j].icao24
    /\ pc \in {"returned", "raised"} =>
          \A a \in {df_in[i].icao24 : i \in 1..Len(df_in)} :
              ReturnedMatches(a) = ExpectedBasicInfo(AircraftRows(df_in, a))

\* ---------------------------------------------------------------------
\* Sorting.
\* A row without its label.
Unlabelled(row) ==
    [row EXCEPT !.idx = 0]

\* The two dataframes hold the same rows, labels aside, each as many times.
SameRows(d, e) ==
    /\ Len(d) = Len(e)
    /\ \A i \in 1..Len(d) :
          Cardinality({j \in 1..Len(d) : Unlabelled(d[j]) = Unlabelled(d[i])})
             = Cardinality({j \in 1..Len(e) : Unlabelled(e[j]) = Unlabelled(d[i])})

\* The rows are in ascending order of (icao24, ts).
AscendingIcaoTs(d) ==
    \A i \in 1..(Len(d) - 1) :
        \/ IcaoRank(d[i].icao24) < IcaoRank(d[i + 1].icao24)
        \/ d[i].icao24 = d[i + 1].icao24 /\ d[i].ts <= d[i + 1].ts

\* C22: sort_dataframe returns a permutation of its argument ordered by
\* (icao24, ts) and sorting its result again changes nothing; and every
\* segment in the output of identify_segments is in non-decreasing order of
\* ts, whatever the order of the argument.  The argument sg_df is the same
\* in every state of a call, so sort_dataframe is applied to it where the
\* call starts.
C22_SortedAndIdempotent ==
    /\ sg_pc = "call" =>
          LET sorted == sort_dataframe(sg_df)
          IN  /\ SameRows(sorted, sg_df)
              /\ AscendingIcaoTs(sorted)
              /\ sort_dataframe(sorted) = sorted
    /\ sg_pc = "returned" =>
          \A i, j \in 1..Len(annotated_df) :
              (/\ i < j
               /\ annotated_df[i].icao24 = annotated_df[j].icao24
               /\ annotated_df[i].segment = annotated_df[j].segment)
                 => annotated_df[i].ts <= annotated_df[j].ts

\* C22 witness: identify_segments returned for an argument in which a later
\* report of an aircraft precedes an earlier one, which sort_dataframe
\* reorders, and two reports ended in one segment.
C22_Witness ==
    /\ sg_pc = "returned"
    /\ \E i, j \in 1..Len(sg_df) :
          /\ i < j
          /\ sg_df[i].icao24 = sg_df[j].icao24
          /\ sg_df[i].ts > sg_df[j].ts
          /\ sg_df[i].ts - sg_df[j].ts <= time_gap_threshold * 1000
    /\ sort_dataframe(sg_df) # sg_df
    /\ \E i, j \in 1..Len(annotated_df) :
          /\ i < j
          /\ annotated_df[i].icao24 = annotated_df[j].icao24
          /\ annotated_df[i].segment = annotated_df[j].segment
          /\ annotated_df[i].ts < annotated_df[j].ts

\* ---------------------------------------------------------------------
\* The cache of the landing tables.
\* C23: in every run of process_adsb_data_1day the landing tables used by
\* the analysis, read from the cache file or computed, are the tables that a
\* run without cache files computes with the model argument of this run.
C23_CacheIsTransparent ==
    ch_pc = "analysis" =>
        /\ ~IsRaised(LandingTables(model, df_in))
        /\ df_with_runway = LandingTables(model, df_in).df_with_runway
        /\ basic_info_df = LandingTables(model, df_in).basic_info_df
        /\ df_segments_ils = LandingTables(model, df_in).df_segments_ils

\* ---------------------------------------------------------------------
\* compute_score.
\* C24: of two predictions the same distance above and below the same real
\* value, the one above has the strictly greater score; and the returned
\* score is the sum of the scores of the pairs.
C24_OverPredictionCostsMore ==
    sc_pc = "returned" =>
        /\ \A i, j \in 1..Len(individual_scores) :
              (/\ y_true_seconds[i] = y_true_seconds[j]
               /\ y_prediction_seconds[i] > y_true_seconds[i]
               /\ y_prediction_seconds[i] - y_true_seconds[i]
                     = y_true_seconds[j] - y_prediction_seconds[j])
                 => individual_scores[i] > individual_scores[j]
        /\ final_score = sum([i \in 1..Len(y_true_seconds) |->
                                 Score(y_prediction_seconds[i], y_true_seconds[i])])

\* ---------------------------------------------------------------------
\* Diagnostics of identify_landing_runway.
\* The diagnostic lines printed for a group: those naming its aircraft and
\* the timestamp of its first report.
DiagnosticsOf(key) ==
    {j \in 1..Len(printed) :
        /\ printed[j].icao24 = key[1]
        /\ printed[j].ts = GroupRows(df_in, key)[1].ts}

\* The checks that a group fails, in the order runway, FAP distance,
\* threshold distance.
FailedChecks(key) ==
    LET group_df == GroupRows(df_in, key)
        nearest_fap == MatchOf(FAP_position, group_df)
        nearest_thr == MatchOf(threshold_position, group_df)
    IN  SelectSeq(<< "runways do not match", "FAP distance too large",
                     "THR distance too large" >>,
                  LAMBDA reason :
                     \/ reason = "runways do not match"
                          /\ nearest_fap.runway # nearest_thr.runway
                     \/ reason = "FAP distance too large"
                          /\ nearest_fap.distance > 700
                     \/ reason = "THR distance too large"
                          /\ nearest_thr.distance > 700)

\* The groups that the loop has visited and that have coordinates.
CheckedKeys ==
    {key \in SeqRange(GroupKeys(FilterTrajectories(df_in))) :
        Visited(key) /\ InputGroupValid(key) # {}}

\* C25: a segment that fails a check emits exactly one diagnostic line, with
\* its aircraft, the timestamp of its first report and the first failing
\* check in the order runway mismatch, FAP distance, threshold distance; an
\* accepted segment emits none; and the loop goes on: there are as many
\* lines as visited segments that fail a check.
C25_OneDiagnosticFirstReason ==
    LET failed == [key \in CheckedKeys |-> FailedChecks(key)]
    IN  /\ \A key \in DOMAIN failed :
              IF failed[key] = << >>
              THEN DiagnosticsOf(key) = {}
              ELSE /\ Cardinality(DiagnosticsOf(key)) = 1
                   /\ \A j \in DiagnosticsOf(key) :
                         printed[j].reason = Head(failed[key])
        /\ Len(printed) = Cardinality({key \in DOMAIN failed : failed[key] # << >>})

\* C25 witness: a segment that fails both distance checks was reported with
\* the FAP distance, and a later segment was accepted.
C25_Witness ==
    /\ \E key \in CheckedKeys :
          /\ FailedChecks(key) = << "FAP distance too large", "THR distance too large" >>
          /\ \E j \in DiagnosticsOf(key) : printed[j].reason = "FAP distance too large"
    /\ Len(printed) = 1
    /\ basic_info_results # << >>

\* ---------------------------------------------------------------------
\* RunwayFAP.dms_to_decimal.
\* The number written by the characters i..j of a string of digits.
RECURSIVE DigitsValue(_, _, _)
DigitsValue(chars, i, j) ==
    IF i > j THEN 0 ELSE 10 * DigitsValue(chars, i, j - 1) + DigitValue(chars[j])

\* The arc-seconds of a DMS string that reads k degree digits.
ArcSeconds(chars, k) ==
    3600 * DigitsValue(chars, 1, k) + 60 * DigitsValue(chars, k + 1, k + 2)
       + DigitsValue(chars, k + 3, Len(chars) - 1)

\* The literal values, in arc-seconds, of the strings of FAP_position.
FapArcSeconds ==
    [r \in {"18R", "18L", "32L", "32R"} |->
        CASE r = "18R" -> [latitude |-> 146779, longitude |-> -12874]
          [] r = "18L" -> [latitude |-> 146546, longitude |-> -12817]
          [] r = "32L" -> [latitude |-> 145372, longitude |-> -12495]
          [] r = "32R" -> [latitude |-> 145260, longitude |-> -12280]]

\* The coordinate table entry of a FAP.
FapLatLon(r) ==
    CASE r = "18R" -> LatLon.FAP_18R
      [] r = "18L" -> LatLon.FAP_18L
      [] r = "32L" -> LatLon.FAP_32L
      [] r = "32R" -> LatLon.FAP_32R

\* micro is the value of arcsec / 3600 degrees in millionths, rounded down.
IsMicroDegrees(micro, arcsec) ==
    micro * 9 <= arcsec * 2500 /\ arcsec * 2500 < (micro + 1) * 9

\* C26: dms_to_decimal returns deg + min/60 + sec/3600, with 2 degree digits
\* when there are 6 digits and 3 otherwise, negated exactly for S and W; the
\* strings of FAP_position give positive latitudes and negative longitudes
\* equal to their literal values, which are the coordinates of the FAPs.
C26_DmsConversion ==
    dm_pc = "returned" =>
        LET direction == dms_str[Len(dms_str)]
            arcsec == ArcSeconds(dms_str, IF Len(dms_str) - 1 = 6 THEN 2 ELSE 3)
        IN  /\ decimal.den = 3600
            /\ decimal.num = IF direction \in {"S", "W"} THEN -arcsec ELSE arcsec
            /\ \A r \in DOMAIN FAP_dms :
                  /\ dms_str = FAP_dms[r].latitude_dms =>
                        /\ decimal.num = FapArcSeconds[r].latitude
                        /\ decimal.num > 0
                        /\ IsMicroDegrees(FapLatLon(r).lat_deg, decimal.num)
                  /\ dms_str = FAP_dms[r].longitude_dms =>
                        /\ decimal.num = FapArcSeconds[r].longitude
                        /\ decimal.num < 0
                        /\ IsMicroDegrees(FapLatLon(r).lon_deg, decimal.num)

\* C26 witness: the longitude string of the FAP of 18R was converted, with
\* three degree digits and negated.
C26_Witness ==
    /\ dm_pc = "returned"
    /\ dms_str = FAP_dms["18R"].longitude_dms
    /\ decimal = Frac(-12874, 3600)

\* ---------------------------------------------------------------------
\* Conservation of reports by identify_segments.
\* The report of a row: aircraft, timestamp, altitude and position.
ReportOf(row) ==
    << row.icao24, row.ts, row.altitude, row.pos >>

\* How many rows of the dataframe hold the report.
Occurrences(d, report) ==
    Cardinality({i \in 1..Len(d) : ReportOf(d[i]) = report})

\* C27: when identify_segments returns, every report of the argument is in
\* the annotated output as many times as in the argument and no other
\* report is, each output row has one segment ordinal and one of the three
\* classes, and the segment summary has exactly one row for each
\* (aircraft, segment) of the annotated output.
C27_ReportsConserved ==
    sg_pc = "returned" =>
        /\ Len(annotated_df) = Len(sg_df)
        /\ \A i \in 1..Len(sg_df) :
              Occurrences(annotated_df, ReportOf(sg_df[i]))
                 = Occurrences(sg_df, ReportOf(sg_df[i]))
        /\ \A j \in 1..Len(annotated_df) :
              /\ annotated_df[j].segment \in Nat
              /\ annotated_df[j].trajectory \in Trajectories
        /\ \A key \in SegmentKeys(annotated_df) :
              Cardinality({k \in 1..Len(segment_summary) :
                              /\ segment_summary[k].icao24 = key[1]
                              /\ segment_summary[k].segment = key[2]}) = 1
        /\ \A k \in 1..Len(segment_summary) :
              << segment_summary[k].icao24, segment_summary[k].segment >>
                 \in SegmentKeys(annotated_df)

\* C27 witness: identify_segments returned three reports of two aircraft,
\* one aircraft with two segments.
C27_Witness ==
    /\ sg_pc = "returned"
    /\ Len(annotated_df) = 3
    /\ Len(segment_summary) = 3
    /\ Cardinality({annotated_df[j].icao24 : j \in 1..Len(annotated_df)}) = 2

\* ---------------------------------------------------------------------
\* idx_fap and idx_thr of the enriched table.
\* In the table, the label is that of exactly one row, which belongs to the
\* (aircraft, segment) of the enriched row and has the timestamp.
IdentifiesReport(table, label, row, ts) ==
    /\ Cardinality({k \in 1..Len(table) : table[k].idx = label}) = 1
    /\ \A k \in 1..Len(table) :
          table[k].idx = label =>
             /\ table[k].icao24 = row.icao24
             /\ table[k].segment = row.segment
             /\ table[k].ts = ts

\* C28 as stated: idx_fap and idx_thr of every row of the returned enriched
\* table are the index, in that returned table, of a report of the same
\* (aircraft, segment) with timestamp ts_fap, respectively ts_thr.
C28_IndexIntoReturnedTable ==
    pc = "returned" =>
        \A j \in 1..Len(df_with_runway) :
            /\ IdentifiesReport(df_with_runway, df_with_runway[j].idx_fap,
                                df_with_runway[j], df_with_runway[j].ts_fap)
            /\ IdentifiesReport(df_with_runway, df_with_runway[j].idx_thr,
                                df_with_runway[j], df_with_runway[j].ts_thr)

\* C28: idx_fap and idx_thr of every row of the returned enriched table are
\* the index, in the dataframe given to identify_landing_runway, of a report
\* of the same (aircraft, segment) with timestamp ts_fap, respectively
\* ts_thr.
C28_IndexIntoArgument ==
    pc = "returned" =>
        \A j \in 1..Len(df_with_runway) :
            /\ IdentifiesReport(df_in, df_with_runway[j].idx_fap,
                                df_with_runway[j], df_with_runway[j].ts_fap)
            /\ IdentifiesReport(df_in, df_with_runway[j].idx_thr,
                                df_with_runway[j], df_with_runway[j].ts_thr)

\* C28 witness: the returned table holds an accepted segment whose rows
\* follow, in the argument, rows of a segment that was left out, so that
\* idx_fap is not the index of the matched report in the returned table.
C28_Witness ==
    /\ pc = "returned"
    /\ Len(df_with_runway) < Len(df_in)
    /\ \E j, k \in 1..Len(df_with_runway) :
          /\ df_with_runway[k].ts = df_with_runway[j].ts_fap
          /\ df_with_runway[k].icao24 = df_with_runway[j].icao24
          /\ df_with_runway[k].idx # df_with_runway[j].idx_fap

\* ---------------------------------------------------------------------
\* The class of the segments attributed in the pipeline.
\* C29 as stated: every segment attributed in the pipeline descends over the
\* reports that identify_landing_runway receives: its last report is
\* strictly lower than its first.
C29_DescendingAfterFilters ==
    \A n \in 1..Len(results) :
        results[n][Len(results[n])].altitude < results[n][1].altitude

\* C29: every segment attributed in the pipeline has the class 'landing',
\* which identify_segments gave it over all the reports of the segment,
\* before the filters: the last report of the whole segment is strictly
\* lower than its first.
C29_DescendingBeforeFilters ==
    \A n \in 1..Len(results) :
        LET whole == GroupRows(annotated_df,
                               << results[n][1].icao24, results[n][1].segment >>)
        IN  /\ \A i \in 1..Len(results[n]) : results[n][i].trajectory = "landing"
            /\ whole[Len(whole)].altitude < whole[1].altitude

\* C29 witness: an attributed segment lost its last report to the filters
\* and the reports left do not descend.
C29_Witness ==
    \E n \in 1..Len(results) :
        LET whole == GroupRows(annotated_df,
                               << results[n][1].icao24, results[n][1].segment >>)
        IN  /\ Len(results[n]) < Len(whole)
            /\ results[n][Len(results[n])].altitude > results[n][1].altitude
            /\ whole[Len(whole)].altitude < whole[1].altitude

\* ---------------------------------------------------------------------
\* Termination of the sampling functions (checked under SpecSampleFair).
\* ---------------------------------------------------------------------
\* The value returned is what the claim promises: n_samples samples each
\* greater than dist_mean, or the one sample of a get_time function.
ReturnedAsPromised ==
    /\ sm_pc = "returned"
    /\ Len(samples) = n_samples
    /\ \A i \in 1..Len(samples) : samples[i] > dist_mean
    /\ sm_result = IF sm_call.function \in GetTimeFunctions
                   THEN [float |-> samples[1]]
                   ELSE [array |-> samples]

\* C30: every call of sample_greater_than_mean, and of a get_time function
\* with any runway string, eventually returns: n_samples samples each
\* strictly greater than dist_mean.
C30_EventuallyReturns ==
    <>ReturnedAsPromised

====
